---- MODULE Spec2Model ----
(***************************************************************************)
(* Taskboard core of mcp-pantheon-suite: the task table with its two       *)
(* status pipelines, the subtask hierarchy, the status history / audit     *)
(* comments, and the dependency graph with its BFS cycle check.            *)
(*                                                                         *)
(* The store is one SQLite file.  Every handler is synchronous, so inside  *)
(* one server process a handler runs to completion; several server         *)
(* processes (one per agent) may share the file, and then the unit of      *)
(* atomicity is one SQL statement or one db.transaction() block.           *)
(***************************************************************************)
EXTENDS Integers, Sequences, FiniteSets, TLC

VARIABLES
  tasks,      \* table tasks: id -> [project, status, assigned_to, parent_task_id,
              \*                     criteria]
  deps,       \* table task_deps: set of [task_id, depends_on_id, created_by]
  history,    \* table task_history, per task_id, in insertion order
  comments,   \* table task_comments, per task_id, in insertion order
  nextId,     \* number of the next identifier uuid8() hands out
  result,     \* what the last handler call returned to its caller
  procs,      \* per server process: position inside a running handler
  initiatives, \* table initiatives: id -> [owner, status, updates], updates being
              \* the initiative's rows of initiative_updates in insertion order
  links,      \* table initiative_tasks: set of [initiative_id, task_id, role, linked_by]
  plans,      \* planner, table plans: id -> [agent_name, status, steps, created_at]
  memories    \* memory server, table memories: id -> [agent_name, content,
              \*                                         importance, access_count]

vars == <<tasks, deps, history, comments, nextId, result, procs, initiatives, links,
          plans, memories>>

-----------------------------------------------------------------------------
(* Bounds of the model *)

MaxTasks == 3          \* identifiers handed out in the dependency-graph runs
MaxPipelineTasks == 1  \* identifiers handed out in the status-pipeline runs
MaxFamilyTasks == 2    \* identifiers handed out in the parent/subtask runs
MaxRaceTasks == 2      \* identifiers handed out in the multi-process runs
MaxHistory == 2        \* history rows one task may collect
MaxUpdateRaceTasks == 1  \* identifiers handed out in the racing-update runs
MaxRaceHistory == 3    \* history rows one task may collect in the racing-update runs
MaxNestTasks == 3      \* identifiers handed out in the nesting runs
MaxLifeTasks == 2      \* identifiers handed out in the create/update/delete runs
MaxCascadeIds == 3     \* identifiers handed out in the delete-cascade runs

-----------------------------------------------------------------------------
(* Values *)

NULL == "null"                \* SQL NULL / JS null
UNDEFINED == "undefined"      \* an argument the caller left out

\* uuid8(): a fresh 8-character identifier; the n-th one handed out.
uuid8(n) == "t" \o ToString(n)

TaskIds(max) == {uuid8(n) : n \in 1..max}

\* Project names are character sequences so that startsWith("ops/") is computed.
OpsPrefix == <<"o", "p", "s", "/">>
ProjOps == <<"o", "p", "s", "/", "d">>       \* "ops/d"
ProjForge == <<"f", "o", "r", "g", "e", "/", "a">>   \* "forge/a"
NoProject == <<>>                            \* project missing / empty

startsWith(s, prefix) ==
  /\ Len(s) >= Len(prefix)
  /\ SubSeq(s, 1, Len(prefix)) = prefix

Range(seq) == {seq[i] : i \in 1..Len(seq)}

-----------------------------------------------------------------------------
(* Pipelines (schema.js) *)

FORGE_STATUSES ==
  <<"backlog", "specced", "designed", "ready", "in_progress",
    "in_review", "testing", "acceptance", "done">>

\* The full-pipeline table with done reopened: what the table would be if a
\* finished task could go back to in_progress.
FORGE_TRANSITIONS_DoneReopens ==
  [s \in Range(FORGE_STATUSES) |->
     CASE s = "backlog"     -> {"specced"}
       [] s = "specced"     -> {"designed"}
       [] s = "designed"    -> {"ready"}
       [] s = "ready"       -> {"in_progress"}
       [] s = "in_progress" -> {"in_review"}
       [] s = "in_review"   -> {"testing", "in_progress"}
       [] s = "testing"     -> {"acceptance", "in_progress"}
       [] s = "acceptance"  -> {"done", "in_progress"}
       [] s = "done"        -> {"in_progress"}]

\* The full-pipeline table with the review kick-back aimed at ready instead of
\* in_progress.
FORGE_TRANSITIONS_KickBackToReady ==
  [s \in Range(FORGE_STATUSES) |->
     CASE s = "backlog"     -> {"specced"}
       [] s = "specced"     -> {"designed"}
       [] s = "designed"    -> {"ready"}
       [] s = "ready"       -> {"in_progress"}
       [] s = "in_progress" -> {"in_review"}
       [] s = "in_review"   -> {"testing", "ready"}
       [] s = "testing"     -> {"acceptance", "in_progress"}
       [] s = "acceptance"  -> {"done", "in_progress"}
       [] s = "done"        -> {}]

FORGE_TRANSITIONS ==
  [s \in Range(FORGE_STATUSES) |->
     CASE s = "backlog"     -> {"specced"}
       [] s = "specced"     -> {"designed"}
       [] s = "designed"    -> {"ready"}
       [] s = "ready"       -> {"in_progress"}
       [] s = "in_progress" -> {"in_review"}
       [] s = "in_review"   -> {"testing", "in_progress"}
       [] s = "testing"     -> {"acceptance", "in_progress"}
       [] s = "acceptance"  -> {"done", "in_progress"}
       [] s = "done"        -> {}]

OPS_STATUSES == <<"todo", "in_progress", "blocked", "done">>

OPS_TRANSITIONS ==
  [s \in Range(OPS_STATUSES) |->
     CASE s = "todo"        -> {"in_progress"}
       [] s = "in_progress" -> {"blocked", "done"}
       [] s = "blocked"     -> {"in_progress"}
       [] s = "done"        -> {}]

VALID_STATUSES == Range(FORGE_STATUSES) \cup Range(OPS_STATUSES)

getTransitions(project) ==
  IF project # NoProject /\ startsWith(project, OpsPrefix)
  THEN OPS_TRANSITIONS
  ELSE FORGE_TRANSITIONS

getDefaultStatus(project) ==
  IF project # NoProject /\ startsWith(project, OpsPrefix)
  THEN "todo"
  ELSE "backlog"

\* getBoard: the status columns of a project's pipeline.
statusList(project) ==
  IF startsWith(project, OpsPrefix) THEN Range(OPS_STATUSES) ELSE Range(FORGE_STATUSES)

-----------------------------------------------------------------------------
(* Helpers over the tables *)

Exists(id) == id \in DOMAIN tasks

\* The depth test answering that no task is a subtask.
isSubtask_Never(id) == FALSE

\* if (parent.parent_task_id): the task read as parent is itself a subtask.
isSubtask(id) == tasks[id].parent_task_id # NULL

\* SELECT ... FROM tasks WHERE parent_task_id = id
\* The child lookup finding no row.
ChildrenOf_None(id) == {}

ChildrenOf(id) == {c \in DOMAIN tasks : tasks[c].parent_task_id = id}

\* The done-guard's count taken over the children that are done instead of
\* those that are not.
NonDoneChildren_CountsDone(id) ==
  {c \in DOMAIN tasks : tasks[c].parent_task_id = id /\ tasks[c].status = "done"}

\* The done-guard's count taken over every child, done or not.
NonDoneChildren_AnyChild(id) == {c \in DOMAIN tasks : tasks[c].parent_task_id = id}

\* The done-guard finding no child at all.
NonDoneChildren_None(id) == {}

\* SELECT COUNT(*) FROM tasks WHERE parent_task_id = id AND status != 'done'
NonDoneChildren(id) == {c \in ChildrenOf(id) : tasks[c].status # "done"}

\* The BFS expansion with the edge direction swapped: what current depends on
\* instead of what depends on current.
Dependents_WrongWay(d, current) == {e.depends_on_id : e \in {x \in d : x.task_id = current}}

\* The BFS expansion following edges in both directions: every neighbour of
\* current.
Dependents_BothWays(d, current) ==
  {e.task_id : e \in {x \in d : x.depends_on_id = current}}
    \cup {e.depends_on_id : e \in {x \in d : x.task_id = current}}

\* SELECT task_id FROM task_deps WHERE depends_on_id = current
Dependents(d, current) == {e.task_id : e \in {x \in d : x.depends_on_id = current}}

RECURSIVE SetToSeq(_)
SetToSeq(S) ==
  IF S = {} THEN <<>>
  ELSE LET x == CHOOSE y \in S : TRUE IN <<x>> \o SetToSeq(S \ {x})

\* The criteria column of a task: SQL NULL until set_criteria writes the JSON
\* text of a list of items.
NullColumn == [null |-> TRUE, items |-> <<>>]

\* JSON.stringify(items), stored in the column.
stringify(items) == [null |-> FALSE, items |-> items]

Idle == [pc |-> "idle"]

\* A handler's answer: { content: [{ text }], isError }.  text is the kind of
\* message; shown is the status or id the message names where a caller relies
\* on it, NULL otherwise.
Answer(op, isError, text, shown) ==
  [op |-> op, isError |-> isError, text |-> text, shown |-> shown]
Ok(op, text) == Answer(op, FALSE, text, NULL)
Err(op, text) == Answer(op, TRUE, text, NULL)

-----------------------------------------------------------------------------
\* An empty table keyed by task id.
EmptyTable == [id \in {} |-> NULL]

\* The rows of table t whose key is in S.
Restrict(t, S) == [id \in S |-> t[id]]

\* Table t with the row for id inserted or replaced.
Put(t, id, row) == [x \in DOMAIN t \cup {id} |-> IF x = id THEN row ELSE t[x]]

Procs == {"p1", "p2"}

Init ==
  /\ tasks = EmptyTable
  /\ deps = {}
  /\ history = EmptyTable
  /\ comments = EmptyTable
  /\ nextId = 1
  /\ result = Ok("init", "")
  /\ procs = [p \in Procs |-> Idle]
  /\ initiatives = EmptyTable
  /\ links = {}
  /\ plans = EmptyTable
  /\ memories = EmptyTable

-----------------------------------------------------------------------------
(* createTask (tasks.js) *)

\* The project resolution with the caller's value taking precedence over the
\* parent's.
resolveProject_CallerFirst(project, parent_task_id) ==
  IF project # NoProject \/ parent_task_id = UNDEFINED
  THEN project
  ELSE tasks[parent_task_id].project

\* let resolvedProject = project; if (parent_task_id) resolvedProject = parent.project
resolveProject(project, parent_task_id) ==
  IF parent_task_id # UNDEFINED THEN tasks[parent_task_id].project ELSE project

\* createTx leaving out the history row.
initialHistory_None(status, agentName) == <<>>

\* INSERT INTO task_history (..., from_status, to_status, changed_by, ...)
\* VALUES (?, ?, NULL, ?, ?, ?): the rows of a task that was just created.
initialHistory(status, agentName) ==
  <<[from_status |-> NULL, to_status |-> status, changed_by |-> agentName]>>

CreateTask(agentName, project, status, assigned_to, parent_task_id) ==
  LET op == "create_task"
      id == uuid8(nextId)
      hasParent == parent_task_id # UNDEFINED
      resolvedProject == resolveProject(project, parent_task_id)
      resolvedStatus ==
        IF status # UNDEFINED THEN status ELSE getDefaultStatus(resolvedProject)
      reject(text) ==
        /\ result' = Err(op, text)
        /\ UNCHANGED <<tasks, deps, history, comments, nextId, procs, initiatives, links, plans, memories>>
  IN
  IF hasParent /\ ~Exists(parent_task_id) THEN reject("parent_not_found")
  ELSE IF hasParent /\ isSubtask(parent_task_id)
    THEN reject("nesting_too_deep")
  ELSE IF resolvedProject = NoProject THEN reject("project_required")
  ELSE
    \* createTx: the task row and its first history row, one transaction
    /\ tasks' = Put(tasks, id,
                    [project |-> resolvedProject,
                     status |-> resolvedStatus,
                     assigned_to |-> IF assigned_to # UNDEFINED THEN assigned_to ELSE NULL,
                     parent_task_id |-> IF hasParent THEN parent_task_id ELSE NULL,
                     criteria |-> NullColumn])
    /\ history' = Put(history, id, initialHistory(resolvedStatus, agentName))
    /\ comments' = Put(comments, id, <<>>)
    /\ nextId' = nextId + 1
    /\ result' = Answer(op, FALSE, "created", id)
    /\ UNCHANGED <<deps, procs, initiatives, links, plans, memories>>

-----------------------------------------------------------------------------
(* updateTask (tasks.js) *)

\* The optimistic lock switched off: no expected_status is ever stale.
lockMismatch_Never(expected_status, current) == FALSE

\* Optimistic lock: expected_status && task.status !== expected_status
lockMismatch(expected_status, current) ==
  expected_status # UNDEFINED /\ current # expected_status

\* The same-status rule switched off: the requested status is kept as it is.
dropSameStatus_Keeps(status, current) == status

\* Same-status no-op: if (status && status === task.status) status = undefined
dropSameStatus(status, current) ==
  IF status # UNDEFINED /\ status = current THEN UNDEFINED ELSE status

\* The status-change test answering no for every request.
isStatusChange_Never(status, current) == FALSE

\* status && status !== task.status, the test in front of the transition
\* validation and in front of the audit comment and history row.
isStatusChange(status, current) == status # UNDEFINED /\ status # current

\* The handler with the optimistic lock tested after the transition, done-guard
\* and parent validations instead of before them.
UpdateTask_LockLast(agentName, task_id, status, assigned_to, parent_task_id, expected_status) ==
  LET op == "update_task"
      task == tasks[task_id]
      newStatus == dropSameStatus(status, task.status)
      transitions == getTransitions(task.project)
      changesStatus == isStatusChange(newStatus, task.status)
      answer(r) ==
        /\ result' = r
        /\ UNCHANGED <<tasks, deps, history, comments, nextId, procs, initiatives, links, plans, memories>>
  IN
  IF ~Exists(task_id) THEN answer(Ok(op, "not_found"))
  ELSE IF /\ changesStatus
          /\ task.status \in DOMAIN transitions
          /\ newStatus \notin transitions[task.status]
    THEN answer(Err(op, "invalid_transition"))
  ELSE IF newStatus = "done" /\ NonDoneChildren(task_id) # {}
    THEN answer(Err(op, "subtasks_not_done"))
  ELSE IF parent_task_id \notin {UNDEFINED, NULL} /\ parent_task_id = task_id
    THEN answer(Err(op, "own_parent"))
  ELSE IF parent_task_id \notin {UNDEFINED, NULL} /\ ~Exists(parent_task_id)
    THEN answer(Err(op, "parent_not_found"))
  ELSE IF parent_task_id \notin {UNDEFINED, NULL} /\ isSubtask(parent_task_id)
    THEN answer(Err(op, "nesting_too_deep"))
  ELSE IF parent_task_id \notin {UNDEFINED, NULL} /\ ChildrenOf(task_id) # {}
    THEN answer(Err(op, "parent_into_subtask"))
  ELSE IF lockMismatch(expected_status, task.status)
    THEN answer(Answer(op, FALSE, "noop_mismatch", task.status))
  ELSE IF newStatus = UNDEFINED /\ assigned_to = UNDEFINED /\ parent_task_id = UNDEFINED
    THEN answer(Ok(op, "no_fields"))
  ELSE
    \* updateTx: the UPDATE, the audit comment and the history row
    /\ tasks' = Put(tasks, task_id,
                    [task EXCEPT
                       !.status = IF newStatus # UNDEFINED THEN newStatus ELSE @,
                       !.assigned_to = IF assigned_to # UNDEFINED THEN assigned_to ELSE @,
                       !.parent_task_id =
                          IF parent_task_id # UNDEFINED THEN parent_task_id ELSE @])
    /\ IF changesStatus
       THEN /\ comments' = Put(comments, task_id,
                               Append(comments[task_id],
                                      [author |-> agentName,
                                       content |-> <<"Status", task.status, newStatus>>]))
            /\ history' = Put(history, task_id,
                              Append(history[task_id],
                                     [from_status |-> task.status,
                                      to_status |-> newStatus,
                                      changed_by |-> agentName]))
       ELSE UNCHANGED <<comments, history>>
    /\ result' = Ok(op, "updated")
    /\ UNCHANGED <<deps, nextId, procs, initiatives, links, plans, memories>>

UpdateTask(agentName, task_id, status, assigned_to, parent_task_id, expected_status) ==
  LET op == "update_task"
      task == tasks[task_id]
      newStatus == dropSameStatus(status, task.status)
      transitions == getTransitions(task.project)
      changesStatus == isStatusChange(newStatus, task.status)
      answer(r) ==
        /\ result' = r
        /\ UNCHANGED <<tasks, deps, history, comments, nextId, procs, initiatives, links, plans, memories>>
  IN
  IF ~Exists(task_id) THEN answer(Ok(op, "not_found"))
  ELSE IF lockMismatch(expected_status, task.status)
    THEN answer(Answer(op, FALSE, "noop_mismatch", task.status))
  ELSE IF /\ changesStatus
          /\ task.status \in DOMAIN transitions
          /\ newStatus \notin transitions[task.status]
    THEN answer(Err(op, "invalid_transition"))
  ELSE IF newStatus = "done" /\ NonDoneChildren(task_id) # {}
    THEN answer(Err(op, "subtasks_not_done"))
  ELSE IF parent_task_id \notin {UNDEFINED, NULL} /\ parent_task_id = task_id
    THEN answer(Err(op, "own_parent"))
  ELSE IF parent_task_id \notin {UNDEFINED, NULL} /\ ~Exists(parent_task_id)
    THEN answer(Err(op, "parent_not_found"))
  ELSE IF parent_task_id \notin {UNDEFINED, NULL} /\ isSubtask(parent_task_id)
    THEN answer(Err(op, "nesting_too_deep"))
  ELSE IF parent_task_id \notin {UNDEFINED, NULL} /\ ChildrenOf(task_id) # {}
    THEN answer(Err(op, "parent_into_subtask"))
  ELSE IF newStatus = UNDEFINED /\ assigned_to = UNDEFINED /\ parent_task_id = UNDEFINED
    THEN answer(Ok(op, "no_fields"))
  ELSE
    \* updateTx: the UPDATE, the audit comment and the history row
    /\ tasks' = Put(tasks, task_id,
                    [task EXCEPT
                       !.status = IF newStatus # UNDEFINED THEN newStatus ELSE @,
                       !.assigned_to = IF assigned_to # UNDEFINED THEN assigned_to ELSE @,
                       !.parent_task_id =
                          IF parent_task_id # UNDEFINED THEN parent_task_id ELSE @])
    /\ IF changesStatus
       THEN /\ comments' = Put(comments, task_id,
                               Append(comments[task_id],
                                      [author |-> agentName,
                                       content |-> <<"Status", task.status, newStatus>>]))
            /\ history' = Put(history, task_id,
                              Append(history[task_id],
                                     [from_status |-> task.status,
                                      to_status |-> newStatus,
                                      changed_by |-> agentName]))
       ELSE UNCHANGED <<comments, history>>
    /\ result' = Ok(op, "updated")
    /\ UNCHANGED <<deps, nextId, procs, initiatives, links, plans, memories>>

-----------------------------------------------------------------------------
(* deleteTask (tasks.js) *)

\* The rows that REFERENCES tasks(id) ties to the tasks in gone and that
\* deleteTx does not delete: initiative_tasks rows of those tasks, and tasks
\* outside gone whose parent is in gone.
StillReferencing(gone) ==
  {[table |-> "initiative_tasks", row |-> l.task_id] : l \in {x \in links : x.task_id \in gone}}
  \cup {[table |-> "tasks", row |-> c] :
          c \in {x \in DOMAIN tasks \ gone : tasks[x].parent_task_id \in gone}}

\* The confirmation test letting every call through.
notConfirmed_Never(confirm) == FALSE

\* if (!confirm)
notConfirmed(confirm) == confirm # TRUE

DeleteTask(agentName, task_id, confirm) ==
  LET op == "delete_task"
      subtasks == ChildrenOf(task_id)
      gone == subtasks \cup {task_id}
      \* deleteTx: rows of each subtask, the subtasks, rows of the task, the task
      deleteTx ==
        /\ comments' = Restrict(comments, DOMAIN comments \ gone)
        /\ deps' = {e \in deps : e.task_id \notin gone /\ e.depends_on_id \notin gone}
        /\ history' = Restrict(history, DOMAIN history \ gone)
        /\ tasks' = Restrict(tasks, DOMAIN tasks \ gone)
        /\ result' = Ok(op, "deleted")
        /\ UNCHANGED <<nextId, procs, initiatives, links, plans, memories>>
      \* a DELETE FROM tasks throws, deleteTx rolls back, the catch answers
      rolledBack ==
        /\ result' = Err(op, "foreign_key")
        /\ UNCHANGED <<tasks, deps, history, comments, nextId, procs, initiatives, links, plans, memories>>
  IN
  IF notConfirmed(confirm) THEN
    /\ result' = Ok(op, "not_confirmed")
    /\ UNCHANGED <<tasks, deps, history, comments, nextId, procs, initiatives, links, plans, memories>>
  ELSE IF ~Exists(task_id) THEN
    /\ result' = Err(op, "not_found")
    /\ UNCHANGED <<tasks, deps, history, comments, nextId, procs, initiatives, links, plans, memories>>
  ELSE IF StillReferencing(gone) # {} THEN
    \* createDb sets no foreign_keys pragma: whether the REFERENCES clauses are
    \* enforced is the driver's compile-time default, so both outcomes occur.
    rolledBack \/ deleteTx
  ELSE deleteTx

-----------------------------------------------------------------------------
(* addDependency / removeDependency (dependencies.js) *)

\* The cycle check cut to one level: only the start and the tasks that depend
\* directly on it are inspected.
BfsReaches_DirectOnly(d, queue, visited, depends_on_id) ==
  /\ queue # <<>>
  /\ \/ Head(queue) = depends_on_id
     \/ depends_on_id \in Dependents(d, Head(queue))

\* The BFS loop of addDependency over the edge set d: TRUE when the walk from
\* the queue reaches depends_on_id, FALSE when the queue runs empty.
RECURSIVE BfsReaches(_, _, _, _)
BfsReaches(d, queue, visited, depends_on_id) ==
  IF queue = <<>> THEN FALSE
  ELSE LET current == Head(queue) IN
    IF current = depends_on_id THEN TRUE
    ELSE IF current \in visited
      THEN BfsReaches(d, Tail(queue), visited, depends_on_id)
    ELSE BfsReaches(d, Tail(queue) \o SetToSeq(Dependents(d, current)),
                    visited \cup {current}, depends_on_id)

\* A plain INSERT into a table without the primary key on the pair.
InsertOrIgnoreDep_Insert(d, task_id, depends_on_id, created_by) ==
  d \cup {[task_id |-> task_id, depends_on_id |-> depends_on_id,
           created_by |-> created_by]}

\* INSERT OR IGNORE INTO task_deps: the primary key is the ordered pair.
InsertOrIgnoreDep(d, task_id, depends_on_id, created_by) ==
  IF \E e \in d : e.task_id = task_id /\ e.depends_on_id = depends_on_id
  THEN d
  ELSE d \cup {[task_id |-> task_id, depends_on_id |-> depends_on_id,
                created_by |-> created_by]}

AddDependency(agentName, task_id, depends_on_id) ==
  LET op == "add_dependency"
      reject(text) ==
        /\ result' = Err(op, text)
        /\ UNCHANGED <<tasks, deps, history, comments, nextId, procs, initiatives, links, plans, memories>>
  IN
  IF task_id = depends_on_id THEN reject("self_dependency")
  ELSE IF ~Exists(task_id) THEN reject("task_not_found")
  ELSE IF ~Exists(depends_on_id) THEN reject("depends_on_not_found")
  ELSE IF BfsReaches(deps, <<task_id>>, {}, depends_on_id) THEN reject("circular")
  ELSE
    /\ deps' = InsertOrIgnoreDep(deps, task_id, depends_on_id, agentName)
    /\ result' = Ok(op, "added")
    /\ UNCHANGED <<tasks, history, comments, nextId, procs, initiatives, links, plans, memories>>

\* The DELETE matching the pair in either order.
RemoveDependency_EitherOrder(agentName, task_id, depends_on_id) ==
  LET op == "remove_dependency"
      hit == {e \in deps : \/ e.task_id = task_id /\ e.depends_on_id = depends_on_id
                           \/ e.task_id = depends_on_id /\ e.depends_on_id = task_id}
  IN
  IF hit = {} THEN
    /\ result' = Err(op, "dependency_not_found")
    /\ UNCHANGED <<tasks, deps, history, comments, nextId, procs, initiatives, links, plans, memories>>
  ELSE
    /\ deps' = deps \ hit
    /\ result' = Ok(op, "removed")
    /\ UNCHANGED <<tasks, history, comments, nextId, procs, initiatives, links, plans, memories>>

RemoveDependency(agentName, task_id, depends_on_id) ==
  LET op == "remove_dependency"
      hit == {e \in deps : e.task_id = task_id /\ e.depends_on_id = depends_on_id}
  IN
  IF hit = {} THEN
    /\ result' = Err(op, "dependency_not_found")
    /\ UNCHANGED <<tasks, deps, history, comments, nextId, procs, initiatives, links, plans, memories>>
  ELSE
    /\ deps' = deps \ hit
    /\ result' = Ok(op, "removed")
    /\ UNCHANGED <<tasks, history, comments, nextId, procs, initiatives, links, plans, memories>>

-----------------------------------------------------------------------------
(* addComment (comments.js), createInitiative / linkTaskToInitiative        *)
(* (initiatives.js)                                                         *)

\* addComment without the lookup of the task.
AddComment_NoLookup(agentName, task_id, content) ==
  /\ comments' = Put(comments, task_id,
                      Append(IF Exists(task_id) THEN comments[task_id] ELSE <<>>,
                             [author |-> agentName, content |-> content]))
  /\ result' = Ok("add_comment", "comment_added")
  /\ UNCHANGED <<tasks, deps, history, nextId, procs, initiatives, links, plans, memories>>

AddComment(agentName, task_id, content) ==
  LET op == "add_comment" IN
  IF ~Exists(task_id) THEN
    /\ result' = Ok(op, "not_found")
    /\ UNCHANGED <<tasks, deps, history, comments, nextId, procs, initiatives, links, plans, memories>>
  ELSE
    /\ comments' = Put(comments, task_id,
                        Append(comments[task_id], [author |-> agentName, content |-> content]))
    /\ result' = Ok(op, "comment_added")
    /\ UNCHANGED <<tasks, deps, history, nextId, procs, initiatives, links, plans, memories>>

submitReview(agentName, task_id, verdict, content) ==
  LET op == "submit_review" IN
  IF ~Exists(task_id) THEN
    /\ result' = Err(op, "not_found")
    /\ UNCHANGED <<tasks, deps, history, comments, nextId, procs, initiatives, links, plans, memories>>
  ELSE
    /\ comments' = Put(comments, task_id,
                        Append(comments[task_id],
                               [author |-> agentName, content |-> content,
                                type |-> "review", verdict |-> verdict]))
    /\ result' = Ok(op, "review_submitted")
    /\ UNCHANGED <<tasks, deps, history, nextId, procs, initiatives, links, plans, memories>>

\* getTask: the row is read and formatted, nothing is written.
getTask(agentName, task_id) ==
  /\ result' = IF ~Exists(task_id) THEN Ok("get_task", "not_found")
               ELSE Answer("get_task", FALSE, "task", tasks[task_id].status)
  /\ UNCHANGED <<tasks, deps, history, comments, nextId, procs, initiatives, links, plans, memories>>

CreateInitiative(agentName) ==
  LET id == uuid8(nextId) IN
  /\ initiatives' = Put(initiatives, id,
                        [owner |-> agentName, status |-> "active", updates |-> <<>>])
  /\ nextId' = nextId + 1
  /\ result' = Answer("create_initiative", FALSE, "created", id)
  /\ UNCHANGED <<tasks, deps, history, comments, procs, links, plans, memories>>

\* INSERT OR REPLACE: a second link of the pair takes the place of the first.
InsertOrIgnoreLink_Replace(l, initiative_id, task_id, role, linked_by) ==
  {x \in l : ~(x.initiative_id = initiative_id /\ x.task_id = task_id)}
    \cup {[initiative_id |-> initiative_id, task_id |-> task_id,
           role |-> role, linked_by |-> linked_by]}

\* INSERT OR IGNORE INTO initiative_tasks: UNIQUE(initiative_id, task_id).
InsertOrIgnoreLink(l, initiative_id, task_id, role, linked_by) ==
  IF \E x \in l : x.initiative_id = initiative_id /\ x.task_id = task_id
  THEN l
  ELSE l \cup {[initiative_id |-> initiative_id, task_id |-> task_id,
                role |-> role, linked_by |-> linked_by]}

LinkTaskToInitiative(agentName, initiative_id, task_id, role) ==
  LET op == "link_task_to_initiative"
      reject(text) ==
        /\ result' = Err(op, text)
        /\ UNCHANGED <<tasks, deps, history, comments, nextId, procs, initiatives, links, plans, memories>>
  IN
  IF initiative_id \notin DOMAIN initiatives THEN reject("initiative_not_found")
  ELSE IF ~Exists(task_id) THEN reject("task_not_found")
  ELSE
    /\ links' = InsertOrIgnoreLink(links, initiative_id, task_id, role, agentName)
    /\ result' = Ok(op, "linked")
    /\ UNCHANGED <<tasks, deps, history, comments, nextId, procs, initiatives, plans, memories>>

\* getInitiative: the row is read and formatted, nothing is written.
getInitiative(agentName, initiative_id) ==
  /\ result' = IF initiative_id \notin DOMAIN initiatives
               THEN Err("get_initiative", "initiative_not_found")
               ELSE Answer("get_initiative", FALSE, "initiative",
                           initiatives[initiative_id].status)
  /\ UNCHANGED <<tasks, deps, history, comments, nextId, procs, initiatives, links, plans, memories>>

updateInitiative(agentName, initiative_id, status) ==
  LET op == "update_initiative"
      reject(text) ==
        /\ result' = Err(op, text)
        /\ UNCHANGED <<tasks, deps, history, comments, nextId, procs, initiatives, links, plans, memories>>
  IN
  IF initiative_id \notin DOMAIN initiatives THEN reject("initiative_not_found")
  ELSE IF status = UNDEFINED THEN reject("no_fields")
  ELSE
    /\ initiatives' = [initiatives EXCEPT ![initiative_id].status = status]
    /\ result' = Ok(op, "updated")
    /\ UNCHANGED <<tasks, deps, history, comments, nextId, procs, links, plans, memories>>

addInitiativeUpdate(agentName, initiative_id, update_text) ==
  LET op == "add_initiative_update" IN
  IF initiative_id \notin DOMAIN initiatives THEN
    /\ result' = Err(op, "initiative_not_found")
    /\ UNCHANGED <<tasks, deps, history, comments, nextId, procs, initiatives, links, plans, memories>>
  ELSE
    /\ initiatives' = [initiatives EXCEPT ![initiative_id].updates =
                         Append(@, [agent_name |-> agentName, update_text |-> update_text])]
    /\ result' = Ok(op, "update_logged")
    /\ UNCHANGED <<tasks, deps, history, comments, nextId, procs, links, plans, memories>>

-----------------------------------------------------------------------------
(* setCriteria / checkCriterion (criteria.js) *)

\* `c${i + 1}` for the item at 0-based index i, that is the n-th item.
criterionId(n) == "c" \o ToString(n)

\* criteria.map((text, i) => ({ id, text, checked: false, checked_by: null }))
newItems(criteria) ==
  [n \in 1..Len(criteria) |->
     [id |-> criterionId(n), text |-> criteria[n], checked |-> FALSE, checked_by |-> NULL]]

\* safeJsonParse(task.criteria, []): the stored list, [] for a NULL column.
parseCriteria(column) == IF column.null THEN <<>> ELSE column.items

\* items.find((c) => c.id === criterion_id): the index of the first match, 0
\* when there is none.
findItem(items, criterion_id) ==
  IF \E n \in 1..Len(items) : items[n].id = criterion_id
  THEN CHOOSE n \in 1..Len(items) :
         /\ items[n].id = criterion_id
         /\ \A m \in 1..(n - 1) : items[m].id # criterion_id
  ELSE 0

\* checked_by left as it was by check_criterion.
checkedBy_Kept(checked, agentName, before) == before

\* item.checked_by = checked ? agentName : null
checkedBy(checked, agentName, before) == IF checked THEN agentName ELSE NULL

setCriteria(agentName, task_id, criteria) ==
  LET op == "set_criteria" IN
  IF ~Exists(task_id) THEN
    /\ result' = Err(op, "not_found")
    /\ UNCHANGED <<tasks, deps, history, comments, nextId, procs, initiatives, links, plans, memories>>
  ELSE
    /\ tasks' = [tasks EXCEPT ![task_id].criteria = stringify(newItems(criteria))]
    /\ result' = Ok(op, "criteria_set")
    /\ UNCHANGED <<deps, history, comments, nextId, procs, initiatives, links, plans, memories>>

checkCriterion(agentName, task_id, criterion_id, checked) ==
  LET op == "check_criterion"
      reject(text) ==
        /\ result' = Err(op, text)
        /\ UNCHANGED <<tasks, deps, history, comments, nextId, procs, initiatives, links, plans, memories>>
  IN
  IF ~Exists(task_id) THEN reject("not_found")
  ELSE
    LET items == parseCriteria(tasks[task_id].criteria)
        n == findItem(items, criterion_id)
    IN
    IF n = 0 THEN reject("criterion_not_found")
    ELSE
      /\ tasks' = [tasks EXCEPT ![task_id].criteria =
                     stringify([items EXCEPT ![n].checked = checked,
                                             ![n].checked_by =
                                               checkedBy(checked, agentName, @)])]
      /\ result' = Ok(op, IF checked THEN "checked" ELSE "unchecked")
      /\ UNCHANGED <<deps, history, comments, nextId, procs, initiatives, links, plans, memories>>

-----------------------------------------------------------------------------
(* Dependency graph: create_task, add_dependency, remove_dependency and     *)
(* delete_task, one call at a time in one server process.                   *)

GraphAgent == "alice"

GraphCreate ==
  /\ nextId <= MaxTasks
  /\ \E parent \in {UNDEFINED} \cup TaskIds(MaxTasks) :
       CreateTask(GraphAgent, ProjForge, UNDEFINED, UNDEFINED, parent)

GraphAdd ==
  \E a, b \in TaskIds(MaxTasks) : AddDependency(GraphAgent, a, b)

GraphRemove ==
  \E a, b \in TaskIds(MaxTasks) : RemoveDependency(GraphAgent, a, b)

GraphDelete ==
  \E t \in TaskIds(MaxTasks), confirm \in BOOLEAN : DeleteTask(GraphAgent, t, confirm)

NextGraph == GraphCreate \/ GraphAdd \/ GraphRemove \/ GraphDelete

SpecGraph == Init /\ [][NextGraph]_vars

-----------------------------------------------------------------------------
(* Status pipelines: create_task and update_task, one call at a time.       *)

PipelineAgent == "alice"

\* (project, initial status) pairs create_task is called with: every status of
\* each pipeline in its own project, the default, and one status of the other
\* pipeline in each project.
PipelineStarts ==
  ({ProjForge} \X ({UNDEFINED, "todo"} \cup Range(FORGE_STATUSES)))
  \cup ({ProjOps} \X ({UNDEFINED, "backlog"} \cup Range(OPS_STATUSES)))
  \cup {<<NoProject, UNDEFINED>>}

PipelineCreate ==
  /\ nextId <= MaxPipelineTasks
  /\ \E start \in PipelineStarts :
       CreateTask(PipelineAgent, start[1], start[2], UNDEFINED, UNDEFINED)

PipelineUpdate ==
  \E t \in TaskIds(MaxPipelineTasks), status \in {UNDEFINED} \cup VALID_STATUSES :
    /\ UpdateTask(PipelineAgent, t, status, UNDEFINED, UNDEFINED, UNDEFINED)
    /\ Exists(t) => Len(history'[t]) <= MaxHistory

NextPipeline == PipelineCreate \/ PipelineUpdate

SpecPipeline == Init /\ [][NextPipeline]_vars

-----------------------------------------------------------------------------
(* Parents and subtasks: create_task with a parent, update_task with every  *)
(* argument the handler validates, one call at a time.                      *)

FamilyAgent == "alice"

\* (project, initial status) pairs of the family runs: the stage before done
\* and done, in each pipeline.
FamilyStarts ==
  ({ProjForge} \X {"acceptance", "done"}) \cup ({ProjOps} \X {"in_progress", "done"})

\* (status, assigned_to) pairs update_task is called with.
FamilyChanges ==
  {<<UNDEFINED, UNDEFINED>>, <<"done", UNDEFINED>>, <<"done", "bob">>}

FamilyCreate ==
  /\ nextId <= MaxFamilyTasks
  /\ \E start \in FamilyStarts, parent \in {UNDEFINED} \cup TaskIds(MaxFamilyTasks) :
       CreateTask(FamilyAgent, start[1], start[2], UNDEFINED, parent)

FamilyUpdate ==
  \E t \in TaskIds(MaxFamilyTasks),
     change \in FamilyChanges,
     parent \in {UNDEFINED, NULL} \cup TaskIds(MaxFamilyTasks),
     expected \in {UNDEFINED, "done"} :
    /\ UpdateTask(FamilyAgent, t, change[1], change[2], parent, expected)
    /\ Exists(t) => Len(history'[t]) <= MaxHistory

NextFamily == FamilyCreate \/ FamilyUpdate

SpecFamily == Init /\ [][NextFamily]_vars

-----------------------------------------------------------------------------
(* Several server processes on one database file.  Each process runs its    *)
(* handler synchronously, but addDependency issues its SELECTs and its      *)
(* INSERT as separate autocommit statements (no db.transaction), so the     *)
(* statements of two processes interleave.                                  *)

\* getAgentName(): MCP_AGENT_NAME of the process.
getAgentName(p) == IF p = "p1" THEN "alice" ELSE "bob"

SetProc(p, local) == [procs EXCEPT ![p] = local]

\* createTask without parent: one transaction, no statement outside it.
RaceCreate(p) ==
  /\ procs[p].pc = "idle"
  /\ nextId <= MaxRaceTasks
  /\ CreateTask(getAgentName(p), ProjForge, UNDEFINED, UNDEFINED, UNDEFINED)

\* addDependency up to its first statement: the self-reference test, then
\* SELECT id, title FROM tasks WHERE id = task_id.
AddStart(p, task_id, depends_on_id) ==
  /\ procs[p].pc = "idle"
  /\ IF task_id = depends_on_id
     THEN /\ result' = Err("add_dependency", "self_dependency")
          /\ UNCHANGED procs
     ELSE /\ procs' = SetProc(p, [pc |-> "select_t2", task_id |-> task_id,
                                  depends_on_id |-> depends_on_id,
                                  t1 |-> Exists(task_id)])
          /\ UNCHANGED result
  /\ UNCHANGED <<tasks, deps, history, comments, nextId, initiatives, links, plans, memories>>

\* SELECT id, title FROM tasks WHERE id = depends_on_id, then the two
\* not-found tests and the set-up of the BFS.
AddSelectT2(p) ==
  LET local == procs[p] IN
  /\ local.pc = "select_t2"
  /\ IF ~local.t1
     THEN /\ result' = Err("add_dependency", "task_not_found")
          /\ procs' = SetProc(p, Idle)
     ELSE IF ~Exists(local.depends_on_id)
     THEN /\ result' = Err("add_dependency", "depends_on_not_found")
          /\ procs' = SetProc(p, Idle)
     ELSE /\ procs' = SetProc(p, [pc |-> "bfs", task_id |-> local.task_id,
                                  depends_on_id |-> local.depends_on_id,
                                  queue |-> <<local.task_id>>, visited |-> {}])
          /\ UNCHANGED result
  /\ UNCHANGED <<tasks, deps, history, comments, nextId, initiatives, links, plans, memories>>

\* One iteration of the while loop; an iteration that expands current runs
\* SELECT task_id FROM task_deps WHERE depends_on_id = current.
AddBfsStep(p) ==
  LET local == procs[p]
      current == Head(local.queue)
  IN
  /\ local.pc = "bfs"
  /\ local.queue # <<>>
  /\ IF current = local.depends_on_id
     THEN /\ result' = Err("add_dependency", "circular")
          /\ procs' = SetProc(p, Idle)
     ELSE IF current \in local.visited
     THEN /\ procs' = SetProc(p, [local EXCEPT !.queue = Tail(@)])
          /\ UNCHANGED result
     ELSE /\ procs' = SetProc(p,
                 [local EXCEPT
                    !.queue = Tail(@) \o SetToSeq(Dependents(deps, current)),
                    !.visited = @ \cup {current}])
          /\ UNCHANGED result
  /\ UNCHANGED <<tasks, deps, history, comments, nextId, initiatives, links, plans, memories>>

\* The loop has ended: INSERT OR IGNORE INTO task_deps, and the answer.
AddInsert(p) ==
  LET local == procs[p] IN
  /\ local.pc = "bfs"
  /\ local.queue = <<>>
  /\ deps' = InsertOrIgnoreDep(deps, local.task_id, local.depends_on_id, getAgentName(p))
  /\ result' = Ok("add_dependency", "added")
  /\ procs' = SetProc(p, Idle)
  /\ UNCHANGED <<tasks, history, comments, nextId, initiatives, links, plans, memories>>

RaceCreateTask == \E p \in Procs : RaceCreate(p)
RaceAddStart == \E p \in Procs, a, b \in TaskIds(MaxRaceTasks) : AddStart(p, a, b)
RaceAddSelectT2 == \E p \in Procs : AddSelectT2(p)
RaceAddBfsStep == \E p \in Procs : AddBfsStep(p)
RaceAddInsert == \E p \in Procs : AddInsert(p)

NextRace ==
  RaceCreateTask \/ RaceAddStart \/ RaceAddSelectT2 \/ RaceAddBfsStep \/ RaceAddInsert

SpecRace == Init /\ [][NextRace]_vars

-----------------------------------------------------------------------------
(* update_task from several server processes on one database file.  The     *)
(* handler reads the task row with a SELECT of its own, validates against   *)
(* what it read, and only then opens updateTx; the statements before the    *)
(* transaction and the transaction are separate steps of the process.       *)

\* The (status, expected_status) pairs the racing update_task calls carry.
UpdateRaceRequests == {"in_progress", "blocked", "done"} \X {UNDEFINED, "in_progress"}

\* createTask in a lightweight project, started at in_progress.
UpdateRaceCreate(p) ==
  /\ procs[p].pc = "idle"
  /\ nextId <= MaxUpdateRaceTasks
  /\ \E parent \in {UNDEFINED} \cup TaskIds(MaxUpdateRaceTasks) :
       CreateTask(getAgentName(p), ProjOps, "in_progress", UNDEFINED, parent)

\* updateTask up to its next statement: SELECT * FROM tasks WHERE id = task_id,
\* then, on the row read, the not-found test, the optimistic lock, the
\* same-status rule and the transition validation.
UpdateSelect(p, task_id, status, expected_status) ==
  LET op == "update_task"
      task == tasks[task_id]
      newStatus == dropSameStatus(status, task.status)
      transitions == getTransitions(task.project)
      answer(r) == result' = r /\ UNCHANGED procs
      continue(pc) ==
        /\ procs' = SetProc(p, [pc |-> pc, task_id |-> task_id, status |-> newStatus,
                                task_status |-> task.status,
                                expected_status |-> expected_status])
        /\ UNCHANGED result
  IN
  /\ procs[p].pc = "idle"
  /\ IF ~Exists(task_id) THEN answer(Ok(op, "not_found"))
     ELSE IF lockMismatch(expected_status, task.status)
       THEN answer(Answer(op, FALSE, "noop_mismatch", task.status))
     ELSE IF /\ isStatusChange(newStatus, task.status)
             /\ task.status \in DOMAIN transitions
             /\ newStatus \notin transitions[task.status]
       THEN answer(Err(op, "invalid_transition"))
     ELSE IF newStatus = "done" THEN continue("done_guard")
     ELSE IF newStatus = UNDEFINED THEN answer(Ok(op, "no_fields"))
     ELSE continue("update_tx")
  /\ UNCHANGED <<tasks, deps, history, comments, nextId, initiatives, links, plans, memories>>

\* Done-guard: SELECT COUNT(*) ... WHERE parent_task_id = ? AND status != 'done'.
UpdateDoneGuard(p) ==
  LET local == procs[p] IN
  /\ local.pc = "done_guard"
  /\ IF NonDoneChildren(local.task_id) # {}
     THEN /\ result' = Err("update_task", "subtasks_not_done")
          /\ procs' = SetProc(p, Idle)
     ELSE /\ procs' = SetProc(p, [local EXCEPT !.pc = "update_tx"])
          /\ UNCHANGED result
  /\ UNCHANGED <<tasks, deps, history, comments, nextId, initiatives, links, plans, memories>>

\* updateTx: UPDATE tasks SET status = ? WHERE id = ?, then the audit comment
\* and the history row, both written from the row that was read at the start.
UpdateCommit(p) ==
  LET local == procs[p]
      id == local.task_id
      agentName == getAgentName(p)
  IN
  /\ local.pc = "update_tx"
  /\ tasks' = [tasks EXCEPT ![id].status = local.status]
  /\ IF isStatusChange(local.status, local.task_status)
     THEN /\ comments' = [comments EXCEPT ![id] =
                            Append(@, [author |-> agentName,
                                       content |-> <<"Status", local.task_status, local.status>>])]
          /\ history' = [history EXCEPT ![id] =
                           Append(@, [from_status |-> local.task_status,
                                      to_status |-> local.status,
                                      changed_by |-> agentName])]
     ELSE UNCHANGED <<comments, history>>
  /\ Len(history'[id]) <= MaxRaceHistory
  /\ result' = Ok("update_task", "updated")
  /\ procs' = SetProc(p, Idle)
  /\ UNCHANGED <<deps, nextId, initiatives, links, plans, memories>>

UpdateRaceCreateTask == \E p \in Procs : UpdateRaceCreate(p)
UpdateRaceSelect ==
  \E p \in Procs, t \in TaskIds(MaxUpdateRaceTasks), r \in UpdateRaceRequests :
    UpdateSelect(p, t, r[1], r[2])
UpdateRaceDoneGuard == \E p \in Procs : UpdateDoneGuard(p)
UpdateRaceCommit == \E p \in Procs : UpdateCommit(p)

NextUpdateRace ==
  UpdateRaceCreateTask \/ UpdateRaceSelect \/ UpdateRaceDoneGuard \/ UpdateRaceCommit

SpecUpdateRace == Init /\ [][NextUpdateRace]_vars

-----------------------------------------------------------------------------
(* Nesting: create_task with any project and parent, update_task that sets, *)
(* changes or clears the parent, one call at a time.                        *)

NestAgent == "alice"

NestCreate ==
  /\ nextId <= MaxNestTasks
  /\ \E project \in {ProjForge, ProjOps, NoProject},
        parent \in {UNDEFINED} \cup TaskIds(MaxNestTasks) :
       CreateTask(NestAgent, project, UNDEFINED, UNDEFINED, parent)

NestUpdate ==
  \E t \in TaskIds(MaxNestTasks), parent \in {UNDEFINED, NULL} \cup TaskIds(MaxNestTasks) :
    UpdateTask(NestAgent, t, UNDEFINED, UNDEFINED, parent, UNDEFINED)

NextNest == NestCreate \/ NestUpdate

SpecNest == Init /\ [][NextNest]_vars

-----------------------------------------------------------------------------
(* Life of a task: create_task, update_task of the status, delete_task, one *)
(* call at a time.                                                          *)

LifeAgent == "alice"

\* (project, initial status) pairs of the life runs.
LifeStarts ==
  {<<ProjForge, UNDEFINED>>, <<ProjForge, "acceptance">>, <<ProjOps, UNDEFINED>>}

LifeCreate ==
  /\ nextId <= MaxLifeTasks
  /\ \E start \in LifeStarts, parent \in {UNDEFINED} \cup TaskIds(MaxLifeTasks) :
       CreateTask(LifeAgent, start[1], start[2], UNDEFINED, parent)

LifeUpdate ==
  \E t \in TaskIds(MaxLifeTasks), status \in {"specced", "in_progress", "done"} :
    /\ UpdateTask(LifeAgent, t, status, UNDEFINED, UNDEFINED, UNDEFINED)
    /\ Exists(t) => Len(history'[t]) <= MaxHistory

LifeDelete ==
  \E t \in TaskIds(MaxLifeTasks), confirm \in BOOLEAN : DeleteTask(LifeAgent, t, confirm)

NextLife == LifeCreate \/ LifeUpdate \/ LifeDelete

SpecLife == Init /\ [][NextLife]_vars

-----------------------------------------------------------------------------
(* Delete cascade: tasks with subtasks, comments, dependency edges and      *)
(* initiative links, and delete_task with and without confirm, one call at  *)
(* a time.  Tasks and initiatives draw their ids from the same uuid8().     *)

CascadeAgent == "alice"

CascadeCreate ==
  /\ nextId <= MaxCascadeIds
  /\ \E parent \in {UNDEFINED} \cup TaskIds(MaxCascadeIds) :
       CreateTask(CascadeAgent, ProjForge, UNDEFINED, UNDEFINED, parent)

CascadeCreateInitiative ==
  /\ nextId <= MaxCascadeIds
  /\ CreateInitiative(CascadeAgent)

CascadeLink ==
  \E i, t \in TaskIds(MaxCascadeIds) : LinkTaskToInitiative(CascadeAgent, i, t, "role")

\* add_comment, for a task that has no comment yet.
CascadeComment ==
  \E t \in TaskIds(MaxCascadeIds) :
    /\ Exists(t) => comments[t] = <<>>
    /\ AddComment(CascadeAgent, t, <<"note">>)

\* add_dependency, an older task made to depend on a newer one.
CascadeAddDependency ==
  \E i, j \in 1..MaxCascadeIds :
    i < j /\ AddDependency(CascadeAgent, uuid8(i), uuid8(j))

CascadeDelete ==
  \E t \in TaskIds(MaxCascadeIds), confirm \in BOOLEAN : DeleteTask(CascadeAgent, t, confirm)

NextCascade ==
  \/ CascadeCreate \/ CascadeCreateInitiative \/ CascadeLink
  \/ CascadeComment \/ CascadeAddDependency \/ CascadeDelete

SpecCascade == Init /\ [][NextCascade]_vars

-----------------------------------------------------------------------------
(* Edges and links: two agents on one board, create_task,                   *)
(* create_initiative, add_dependency, remove_dependency and                 *)
(* link_task_to_initiative, one call at a time.                             *)

MaxLinkIds == 3

LinkAgents == {"alice", "bob"}

\* The role argument of link_task_to_initiative: left out ("") or given.
LinkRoles == {"", "qa"}

\* The link calls made: alice leaves the role out, bob gives one.
LinkCalls == {<<"alice", "">>, <<"bob", "qa">>}

LinkCreate ==
  /\ nextId <= MaxLinkIds
  /\ CreateTask("alice", ProjOps, UNDEFINED, UNDEFINED, UNDEFINED)

LinkCreateInitiative ==
  /\ nextId <= MaxLinkIds
  /\ CreateInitiative("alice")

\* add_dependency by either agent, an older task made to depend on a newer one.
LinkAddDependency ==
  \E agent \in LinkAgents, i, j \in 1..MaxLinkIds :
    i < j /\ AddDependency(agent, uuid8(i), uuid8(j))

LinkRemoveDependency ==
  \E agent \in LinkAgents, a, b \in TaskIds(MaxLinkIds) : RemoveDependency(agent, a, b)

LinkLink ==
  \E call \in LinkCalls, i, t \in TaskIds(MaxLinkIds) :
    LinkTaskToInitiative(call[1], i, t, call[2])

NextLink ==
  \/ LinkCreate \/ LinkCreateInitiative \/ LinkAddDependency
  \/ LinkRemoveDependency \/ LinkLink

SpecLink == Init /\ [][NextLink]_vars

-----------------------------------------------------------------------------
(* Lookups: every operation of the taskboard that takes an identifier,      *)
(* called with identifiers that exist and with ones that do not, one call   *)
(* at a time.                                                               *)

MaxLookupIds == 2

LookupAgent == "alice"

\* The identifiers callers pass: those handed out and one that never is.
LookupIds == TaskIds(MaxLookupIds + 1)

\* The identifiers of the calls that write a task's or an initiative's own
\* row, its comments or its updates: the oldest one and the one never handed
\* out.
LookupTargets == {uuid8(1), uuid8(MaxLookupIds + 1)}

\* The criterion ids callers pass; lists have at most one item, so "c2" never
\* names one.
LookupCriterionIds == {criterionId(1), criterionId(2)}
LookupCriteria == {<<>>, <<"x">>}

LookupCreate ==
  /\ nextId <= MaxLookupIds
  /\ \E parent \in {UNDEFINED} \cup LookupIds :
       CreateTask(LookupAgent, ProjOps, UNDEFINED, UNDEFINED, parent)

LookupCreateInitiative ==
  /\ nextId <= MaxLookupIds
  /\ CreateInitiative(LookupAgent)

LookupGet ==
  \E id \in LookupTargets : getTask(LookupAgent, id) \/ getInitiative(LookupAgent, id)

LookupUpdate ==
  \E t \in LookupTargets, status \in {UNDEFINED, "in_progress"},
     parent \in {UNDEFINED} \cup LookupIds :
    UpdateTask(LookupAgent, t, status, UNDEFINED, parent, UNDEFINED)

LookupDelete ==
  \E t \in LookupIds : DeleteTask(LookupAgent, t, TRUE)

\* add_comment and submit_review, for a task that has no comment yet.
LookupComment ==
  \E t \in LookupTargets :
    /\ Exists(t) => comments[t] = <<>>
    /\ \/ AddComment(LookupAgent, t, <<"note">>)
       \/ submitReview(LookupAgent, t, "approve", <<"fine">>)

LookupSetCriteria ==
  \E t \in LookupTargets, criteria \in LookupCriteria :
    setCriteria(LookupAgent, t, criteria)

LookupCheckCriterion ==
  \E t \in LookupTargets, c \in LookupCriterionIds, checked \in BOOLEAN :
    checkCriterion(LookupAgent, t, c, checked)

\* add_dependency and remove_dependency, for an older id and a newer one.
LookupDependency ==
  \E i, j \in 1..(MaxLookupIds + 1) :
    /\ i < j
    /\ \/ AddDependency(LookupAgent, uuid8(i), uuid8(j))
       \/ RemoveDependency(LookupAgent, uuid8(i), uuid8(j))

LookupLink ==
  \E i \in LookupIds, t \in LookupTargets : LinkTaskToInitiative(LookupAgent, i, t, "")

\* update_initiative, and add_initiative_update for an initiative that has no
\* update yet.
LookupUpdateInitiative ==
  \E i \in LookupTargets :
    \/ \E status \in {UNDEFINED, "paused"} : updateInitiative(LookupAgent, i, status)
    \/ /\ i \in DOMAIN initiatives => initiatives[i].updates = <<>>
       /\ addInitiativeUpdate(LookupAgent, i, <<"progress">>)

NextLookup ==
  \/ LookupCreate \/ LookupCreateInitiative \/ LookupGet \/ LookupUpdate
  \/ LookupDelete \/ LookupComment \/ LookupSetCriteria \/ LookupCheckCriterion
  \/ LookupDependency \/ LookupLink \/ LookupUpdateInitiative

SpecLookup == Init /\ [][NextLookup]_vars

-----------------------------------------------------------------------------
(* Rejected updates: tasks of both pipelines created with their default     *)
(* status, and update_task calls that carry a status, an assignee and a     *)
(* parent together, one call at a time.                                     *)

MaxRejectTasks == 2

RejectAgent == "alice"

RejectStatuses == {UNDEFINED, "in_progress", "done"}
RejectAssignees == {UNDEFINED, "bob"}

RejectCreate ==
  /\ nextId <= MaxRejectTasks
  /\ \E project \in {ProjForge, ProjOps}, parent \in {UNDEFINED} \cup TaskIds(MaxRejectTasks) :
       CreateTask(RejectAgent, project, UNDEFINED, UNDEFINED, parent)

RejectUpdate ==
  \E t \in TaskIds(MaxRejectTasks), status \in RejectStatuses,
     assigned_to \in RejectAssignees,
     parent \in {UNDEFINED} \cup TaskIds(MaxRejectTasks) :
    UpdateTask(RejectAgent, t, status, assigned_to, parent, UNDEFINED)

NextReject == RejectCreate \/ RejectUpdate

SpecReject == Init /\ [][NextReject]_vars

-----------------------------------------------------------------------------
(* Checklists: two agents calling set_criteria and check_criterion on the   *)
(* tasks of one board, one call at a time.                                  *)

MaxCriteriaTasks == 1
MaxCriteria == 3

CriteriaCreate ==
  /\ nextId <= MaxCriteriaTasks
  /\ CreateTask("alice", ProjOps, UNDEFINED, UNDEFINED, UNDEFINED)

\* set_criteria with a list of up to MaxCriteria texts.
CriteriaSet ==
  \E agent \in {"alice", "bob"}, t \in TaskIds(MaxCriteriaTasks), k \in 0..MaxCriteria :
    setCriteria(agent, t, [n \in 1..k |-> "x"])

\* check_criterion with the ids of the items a list can hold and one beyond.
CriteriaCheck ==
  \E agent \in {"alice", "bob"}, t \in TaskIds(MaxCriteriaTasks),
     n \in 1..(MaxCriteria + 1), checked \in BOOLEAN :
    checkCriterion(agent, t, criterionId(n), checked)

NextCriteria == CriteriaCreate \/ CriteriaSet \/ CriteriaCheck

SpecCriteria == Init /\ [][NextCriteria]_vars

-----------------------------------------------------------------------------
(* The planner server: table plans *)

\* steps.map((desc, i) => ({ id: i + 1, ..., status: "pending" })): the steps of
\* a new plan, one per description.
stepList(steps) == [i \in 1..Len(steps) |-> [id |-> i, status |-> "pending"]]

\* computeProgress(steps): the number of steps with status done, of all steps.
computeProgress(steps) ==
  <<Cardinality({i \in 1..Len(steps) : steps[i].status = "done"}), Len(steps)>>

\* The supersede statement leaving every plan as it is.
supersede_None(agentName) == plans

\* UPDATE plans SET status = 'superseded' WHERE agent_name = ? AND status = 'active'
supersede(agentName) ==
  [id \in DOMAIN plans |->
     IF plans[id].agent_name = agentName /\ plans[id].status = "active"
     THEN [plans[id] EXCEPT !.status = "superseded"]
     ELSE plans[id]]

\* SELECT * FROM plans WHERE agent_name = ? AND status = 'active'
\* ORDER BY created_at DESC LIMIT 1; NULL when there is no such row.
activePlan(agentName) ==
  LET rows == {id \in DOMAIN plans : /\ plans[id].agent_name = agentName
                                     /\ plans[id].status = "active"}
  IN IF rows = {} THEN NULL
     ELSE CHOOSE id \in rows : \A o \in rows : plans[o].created_at <= plans[id].created_at

\* SELECT * FROM plans WHERE id = ?: the lookup of update_step for an explicit
\* plan_id.
planById(agentName, plan_id) ==
  IF plan_id \in DOMAIN plans THEN plan_id ELSE NULL

\* SELECT * FROM plans WHERE id = ? AND status = 'active': the lookup of
\* complete_plan and abandon_plan for an explicit plan_id.
activePlanById(agentName, plan_id) ==
  IF plan_id \in DOMAIN plans /\ plans[plan_id].status = "active" THEN plan_id ELSE NULL

\* The auto-completion test counting only the steps that are done.
allDone_OnlyDone(steps) == \A i \in 1..Len(steps) : steps[i].status = "done"

\* steps.every((s) => s.status === "done" || s.status === "skipped")
allDone(steps) == \A i \in 1..Len(steps) : steps[i].status \in {"done", "skipped"}

\* create_plan: supersede the agent's active plans, then insert the new one as
\* active.  steps is the list of step descriptions, between 1 and 20 of them.
createPlan(agentName, steps) ==
  LET planId == uuid8(nextId) IN
  /\ plans' = Put(supersede(agentName), planId,
                  [agent_name |-> agentName, status |-> "active",
                   steps |-> stepList(steps), progress |-> <<0, Len(steps)>>,
                   created_at |-> nextId])
  /\ nextId' = nextId + 1
  /\ result' = Answer("create_plan", FALSE, "plan_created", planId)
  /\ UNCHANGED <<tasks, deps, history, comments, procs, initiatives, links, memories>>

\* update_step: set one step's status; the plan is completed once every step
\* is done or skipped.
updateStep(agentName, step_id, status, plan_id) ==
  LET op == "update_step"
      plan == IF plan_id # UNDEFINED THEN planById(agentName, plan_id)
              ELSE activePlan(agentName)
      answer(text) ==
        /\ result' = Ok(op, text)
        /\ UNCHANGED plans
  IN
  /\ IF plan = NULL THEN answer("no_active_plan")
     ELSE IF step_id \notin {plans[plan].steps[i].id : i \in 1..Len(plans[plan].steps)}
     THEN answer("step_not_found")
     ELSE
       LET steps == [i \in 1..Len(plans[plan].steps) |->
                       IF plans[plan].steps[i].id = step_id
                       THEN [plans[plan].steps[i] EXCEPT !.status = status]
                       ELSE plans[plan].steps[i]]
       IN
       /\ plans' = [plans EXCEPT ![plan] =
                      [@ EXCEPT !.steps = steps,
                                !.progress = computeProgress(steps),
                                !.status = IF allDone(steps) THEN "completed" ELSE @]]
       /\ result' = Answer(op, FALSE,
                           IF allDone(steps) THEN "plan_completed" ELSE "step_updated",
                           plan)
  /\ UNCHANGED <<tasks, deps, history, comments, nextId, procs, initiatives, links, memories>>

\* complete_plan: mark the plan completed, whatever its steps.
completePlan(agentName, plan_id) ==
  LET op == "complete_plan"
      plan == IF plan_id # UNDEFINED THEN activePlanById(agentName, plan_id)
              ELSE activePlan(agentName)
  IN
  /\ IF plan = NULL
     THEN /\ result' = Ok(op, "no_active_plan")
          /\ UNCHANGED plans
     ELSE /\ plans' = [plans EXCEPT ![plan].status = "completed"]
          /\ result' = Answer(op, FALSE, "plan_completed", plan)
  /\ UNCHANGED <<tasks, deps, history, comments, nextId, procs, initiatives, links, memories>>

\* abandon_plan: append the abandonment note as a skipped step and mark the
\* plan abandoned.
abandonPlan(agentName, plan_id) ==
  LET op == "abandon_plan"
      plan == IF plan_id # UNDEFINED THEN activePlanById(agentName, plan_id)
              ELSE activePlan(agentName)
  IN
  /\ IF plan = NULL
     THEN /\ result' = Ok(op, "no_active_plan")
          /\ UNCHANGED plans
     ELSE /\ plans' = [plans EXCEPT ![plan] =
                         [@ EXCEPT !.status = "abandoned",
                                   !.steps = Append(@, [id |-> Len(@) + 1,
                                                        status |-> "skipped"])]]
          /\ result' = Answer(op, FALSE, "plan_abandoned", plan)
  /\ UNCHANGED <<tasks, deps, history, comments, nextId, procs, initiatives, links, memories>>

\* Two agents planning in one database: alice creates plans of two steps, bob
\* plans of one step, and each calls update_step, complete_plan and
\* abandon_plan on its active plan or on the first plan, named by id.
MaxPlans == 2

PlanAgents == {"alice", "bob"}

PlanRefs == {UNDEFINED, uuid8(1)}

PlannerCreate ==
  /\ nextId <= MaxPlans
  /\ \E call \in {<<"alice", <<"x", "y">> >>, <<"bob", <<"x">> >>} :
       createPlan(call[1], call[2])

PlannerUpdateStep ==
  \E agent \in PlanAgents, step_id \in 1..2, status \in {"done", "skipped"},
     plan_id \in PlanRefs :
    updateStep(agent, step_id, status, plan_id)

PlannerComplete ==
  \E agent \in PlanAgents, plan_id \in PlanRefs : completePlan(agent, plan_id)

PlannerAbandon ==
  \E agent \in PlanAgents, plan_id \in PlanRefs : abandonPlan(agent, plan_id)

NextPlanner == PlannerCreate \/ PlannerUpdateStep \/ PlannerComplete \/ PlannerAbandon

SpecPlanner == Init /\ [][NextPlanner]_vars

-----------------------------------------------------------------------------
(* The memory server: table memories *)

\* ORDER BY importance DESC, created_at DESC: row a comes before row b.
comesBefore(a, b) ==
  \/ memories[a].importance > memories[b].importance
  \/ /\ memories[a].importance = memories[b].importance
     /\ memories[a].created_at > memories[b].created_at

\* SELECT * FROM memories WHERE agent_name = ? ORDER BY importance DESC,
\* created_at DESC LIMIT ?: the ids of the first limit rows of the agent.
rowsOf(agentName, limit) ==
  LET own == {id \in DOMAIN memories : memories[id].agent_name = agentName}
  IN {id \in own : Cardinality({o \in own : comesBefore(o, id)}) < limit}

\* store_memory: insert a row owned by the caller.
storeMemory(agentName, content, importance) ==
  LET memId == uuid8(nextId) IN
  /\ memories' = Put(memories, memId,
                     [agent_name |-> agentName, content |-> content,
                      importance |-> importance, access_count |-> 0,
                      created_at |-> nextId])
  /\ nextId' = nextId + 1
  /\ result' = Answer("store_memory", FALSE, "memory_stored", {memId})
  /\ UNCHANGED <<tasks, deps, history, comments, procs, initiatives, links, plans>>

\* recall, called without query, tags and memory_type: returns the caller's
\* first limit rows and bumps the access count of each returned row.
recall(agentName, limit) ==
  LET rows == rowsOf(agentName, limit) IN
  /\ IF rows = {}
     THEN /\ result' = Answer("recall", FALSE, "no_memories_found", {})
          /\ UNCHANGED memories
     ELSE /\ memories' = [id \in DOMAIN memories |->
                            IF id \in rows
                            THEN [memories[id] EXCEPT !.access_count = @ + 1]
                            ELSE memories[id]]
          /\ result' = Answer("recall", FALSE, "memories", rows)
  /\ UNCHANGED <<tasks, deps, history, comments, nextId, procs, initiatives, links, plans>>

\* list_memories, called without memory_type: returns the caller's first
\* limit rows.
listMemories(agentName, limit) ==
  LET rows == rowsOf(agentName, limit) IN
  /\ result' = Answer("list_memories", FALSE,
                      IF rows = {} THEN "no_memories_stored" ELSE "memories", rows)
  /\ UNCHANGED <<tasks, deps, history, comments, nextId, procs, initiatives, links, plans,
                 memories>>

\* forget: DELETE FROM memories WHERE id = ?
forget(agentName, memory_id) ==
  /\ IF memory_id \notin DOMAIN memories
     THEN /\ result' = Answer("forget", FALSE, "memory_not_found", {})
          /\ UNCHANGED memories
     ELSE /\ memories' = Restrict(memories, DOMAIN memories \ {memory_id})
          /\ result' = Answer("forget", FALSE, "memory_deleted", {})
  /\ UNCHANGED <<tasks, deps, history, comments, nextId, procs, initiatives, links, plans>>

\* update_memory, called with content or with no field at all: SELECT * FROM
\* memories WHERE id = ?, then UPDATE memories SET content = ? WHERE id = ?.
updateMemory(agentName, memory_id, content) ==
  LET op == "update_memory" IN
  /\ IF memory_id \notin DOMAIN memories
     THEN /\ result' = Answer(op, FALSE, "memory_not_found", {})
          /\ UNCHANGED memories
     ELSE IF content = UNDEFINED
     THEN /\ result' = Answer(op, FALSE, "no_fields", {})
          /\ UNCHANGED memories
     ELSE /\ memories' = [memories EXCEPT ![memory_id].content = content]
          /\ result' = Answer(op, FALSE, "memory_updated", {})
  /\ UNCHANGED <<tasks, deps, history, comments, nextId, procs, initiatives, links, plans>>

\* Two agents sharing one database file: each stores memories, recalls and
\* lists its own, and calls update_memory and forget with any id handed out.
MaxMemories == 2

MaxAccess == 1

MemoryAgents == {"alice", "bob"}

MemoryStore ==
  /\ nextId <= MaxMemories
  /\ \E agent \in MemoryAgents, importance \in {5, 8} : storeMemory(agent, "a", importance)

MemoryRecall ==
  \E agent \in MemoryAgents, limit \in {1, 10} :
    /\ \A id \in rowsOf(agent, limit) : memories[id].access_count < MaxAccess
    /\ recall(agent, limit)

MemoryList ==
  \E agent \in MemoryAgents, limit \in {1, 20} : listMemories(agent, limit)

MemoryForget ==
  \E agent \in MemoryAgents, memory_id \in TaskIds(MaxMemories + 1) :
    forget(agent, memory_id)

MemoryUpdate ==
  \E agent \in MemoryAgents, memory_id \in TaskIds(MaxMemories + 1),
     content \in {UNDEFINED, "b"} :
    updateMemory(agent, memory_id, content)

NextMemory == MemoryStore \/ MemoryRecall \/ MemoryList \/ MemoryForget \/ MemoryUpdate

SpecMemory == Init /\ [][NextMemory]_vars

-----------------------------------------------------------------------------
(* Stale expected_status: tasks of both pipelines created with their default *)
(* status, and update_task calls that carry an expected_status together     *)
(* with a status and a parent, one call at a time.                          *)

MaxLockTasks == 2

LockAgent == "alice"

LockStatuses == {UNDEFINED, "in_progress", "done"}

LockCreate ==
  /\ nextId <= MaxLockTasks
  /\ \E project \in {ProjForge, ProjOps}, parent \in {UNDEFINED} \cup TaskIds(MaxLockTasks) :
       CreateTask(LockAgent, project, UNDEFINED, UNDEFINED, parent)

LockUpdate ==
  \E t \in TaskIds(MaxLockTasks), status \in LockStatuses,
     parent \in {UNDEFINED} \cup TaskIds(MaxLockTasks),
     expected \in {UNDEFINED, "todo", "in_progress"} :
    UpdateTask(LockAgent, t, status, UNDEFINED, parent, expected)

NextLock == LockCreate \/ LockUpdate

SpecLock == Init /\ [][NextLock]_vars

-----------------------------------------------------------------------------
(* check_criterion from several server processes on one database file.  The *)
(* handler reads the criteria column with a SELECT, changes one item of the *)
(* parsed list in memory and writes the whole list back with an UPDATE; the *)
(* two statements are not in a transaction, so they are separate steps.     *)

MaxCheckRaceTasks == 1

\* createTask in a lightweight project.
CheckCreate(p) ==
  /\ procs[p].pc = "idle"
  /\ nextId <= MaxCheckRaceTasks
  /\ CreateTask(getAgentName(p), ProjOps, UNDEFINED, UNDEFINED, UNDEFINED)

\* setCriteria: its UPDATE writes a list that does not depend on what was read.
CheckSet(p, task_id, criteria) ==
  /\ procs[p].pc = "idle"
  /\ setCriteria(getAgentName(p), task_id, criteria)

\* checkCriterion up to its UPDATE: SELECT id, criteria FROM tasks WHERE id = ?,
\* the not-found tests, and the change of the item in the parsed list.
CheckSelect(p, task_id, criterion_id, checked) ==
  LET op == "check_criterion"
      items == parseCriteria(tasks[task_id].criteria)
      n == findItem(items, criterion_id)
  IN
  /\ procs[p].pc = "idle"
  /\ IF ~Exists(task_id) THEN result' = Err(op, "not_found") /\ UNCHANGED procs
     ELSE IF n = 0 THEN result' = Err(op, "criterion_not_found") /\ UNCHANGED procs
     ELSE /\ procs' = SetProc(p, [pc |-> "check_update", task_id |-> task_id,
                                  criterion_id |-> criterion_id, checked |-> checked,
                                  items |-> [items EXCEPT
                                               ![n].checked = checked,
                                               ![n].checked_by =
                                                 checkedBy(checked, getAgentName(p), @)]])
          /\ UNCHANGED result
  /\ UNCHANGED <<tasks, deps, history, comments, nextId, initiatives, links, plans, memories>>

\* UPDATE tasks SET criteria = JSON.stringify(items) WHERE id = ?, with the list
\* the process holds in memory.
CheckUpdate(p) ==
  LET local == procs[p] IN
  /\ local.pc = "check_update"
  /\ tasks' = [tasks EXCEPT ![local.task_id].criteria = stringify(local.items)]
  /\ result' = Ok("check_criterion", IF local.checked THEN "checked" ELSE "unchecked")
  /\ procs' = SetProc(p, Idle)
  /\ UNCHANGED <<deps, history, comments, nextId, initiatives, links, plans, memories>>

CheckRaceCreate == \E p \in Procs : CheckCreate(p)
CheckRaceSet ==
  \E p \in Procs, t \in TaskIds(MaxCheckRaceTasks), criteria \in {<<"x">>, <<"x", "y">>} :
    CheckSet(p, t, criteria)
CheckRaceSelect ==
  \E p \in Procs, t \in TaskIds(MaxCheckRaceTasks), n \in 1..3, checked \in BOOLEAN :
    CheckSelect(p, t, criterionId(n), checked)
CheckRaceUpdate == \E p \in Procs : CheckUpdate(p)

NextCheckRace == CheckRaceCreate \/ CheckRaceSet \/ CheckRaceSelect \/ CheckRaceUpdate

SpecCheckRace == Init /\ [][NextCheckRace]_vars

-----------------------------------------------------------------------------
(* References between tasks: create_task with any parent, add_dependency,   *)
(* update_task that sets or clears the parent, and confirmed delete_task,   *)
(* one call at a time.                                                      *)

MaxIntegrityTasks == 3

IntegrityAgent == "alice"

IntegrityCreate ==
  /\ nextId <= MaxIntegrityTasks
  /\ \E parent \in {UNDEFINED} \cup TaskIds(MaxIntegrityTasks) :
       CreateTask(IntegrityAgent, ProjForge, UNDEFINED, UNDEFINED, parent)

IntegrityAddDependency ==
  \E a, b \in TaskIds(MaxIntegrityTasks) : AddDependency(IntegrityAgent, a, b)

IntegrityReparent ==
  \E t \in TaskIds(MaxIntegrityTasks), parent \in {NULL} \cup TaskIds(MaxIntegrityTasks) :
    UpdateTask(IntegrityAgent, t, UNDEFINED, UNDEFINED, parent, UNDEFINED)

IntegrityDelete ==
  \E t \in TaskIds(MaxIntegrityTasks) : DeleteTask(IntegrityAgent, t, TRUE)

NextIntegrity ==
  IntegrityCreate \/ IntegrityAddDependency \/ IntegrityReparent \/ IntegrityDelete

SpecIntegrity == Init /\ [][NextIntegrity]_vars

-----------------------------------------------------------------------------
(* The cycle check of addDependency on an arbitrary stored graph.  The edge *)
(* table starts as any set of edges between the tasks, cycles included (two *)
(* racing add_dependency calls store one), and one process runs              *)
(* add_dependency calls, one loop iteration per step.  The process keeps a   *)
(* log of the tasks it ran the dependents SELECT for.                        *)

MaxWalkTasks == 3

\* Every edge between two different tasks.
WalkEdges ==
  {[task_id |-> a, depends_on_id |-> b, created_by |-> "alice"] :
     a \in TaskIds(MaxWalkTasks), b \in TaskIds(MaxWalkTasks)} \
  {[task_id |-> a, depends_on_id |-> a, created_by |-> "alice"] : a \in TaskIds(MaxWalkTasks)}

InitWalk ==
  /\ tasks = [id \in TaskIds(MaxWalkTasks) |->
                [project |-> ProjForge, status |-> getDefaultStatus(ProjForge),
                 assigned_to |-> NULL, parent_task_id |-> NULL, criteria |-> NullColumn]]
  /\ deps \in SUBSET WalkEdges
  /\ history = [id \in TaskIds(MaxWalkTasks) |->
                  initialHistory(getDefaultStatus(ProjForge), "alice")]
  /\ comments = [id \in TaskIds(MaxWalkTasks) |-> <<>>]
  /\ nextId = MaxWalkTasks + 1
  /\ result = Ok("init", "")
  /\ procs = [p \in Procs |-> Idle]
  /\ initiatives = EmptyTable
  /\ links = {}
  /\ plans = EmptyTable
  /\ memories = EmptyTable

\* The visited test answering that nothing was visited.
visitedHas_Never(visited, current) == FALSE

\* visited.has(current)
visitedHas(visited, current) == current \in visited

\* addDependency up to the loop: the self-reference test, the two task
\* lookups, and visited = new Set(), queue = [task_id].
WalkStart(p, task_id, depends_on_id) ==
  /\ procs[p].pc = "idle"
  /\ IF task_id = depends_on_id
     THEN result' = Err("add_dependency", "self_dependency") /\ UNCHANGED procs
     ELSE IF ~Exists(task_id)
     THEN result' = Err("add_dependency", "task_not_found") /\ UNCHANGED procs
     ELSE IF ~Exists(depends_on_id)
     THEN result' = Err("add_dependency", "depends_on_not_found") /\ UNCHANGED procs
     ELSE /\ procs' = SetProc(p, [pc |-> "bfs", task_id |-> task_id,
                                  depends_on_id |-> depends_on_id,
                                  queue |-> <<task_id>>, visited |-> {},
                                  expanded |-> <<>>])
          /\ UNCHANGED result
  /\ UNCHANGED <<tasks, deps, history, comments, nextId, initiatives, links, plans, memories>>

\* One iteration of the while loop.  An iteration that gets past the two tests
\* expands current: it runs SELECT task_id FROM task_deps WHERE depends_on_id =
\* current and pushes the rows.
WalkStep(p) ==
  LET local == procs[p]
      current == Head(local.queue)
  IN
  /\ local.pc = "bfs"
  /\ local.queue # <<>>
  /\ IF current = local.depends_on_id
     THEN /\ result' = Err("add_dependency", "circular")
          /\ procs' = SetProc(p, Idle)
     ELSE IF visitedHas(local.visited, current)
     THEN /\ procs' = SetProc(p, [local EXCEPT !.queue = Tail(@)])
          /\ UNCHANGED result
     ELSE /\ procs' = SetProc(p,
                 [local EXCEPT
                    !.queue = Tail(@) \o SetToSeq(Dependents(deps, current)),
                    !.visited = @ \cup {current},
                    !.expanded = Append(@, current)])
          /\ UNCHANGED result
  /\ UNCHANGED <<tasks, deps, history, comments, nextId, initiatives, links, plans, memories>>

WalkAddStart == \E a, b \in TaskIds(MaxWalkTasks + 1) : WalkStart("p1", a, b)
WalkBfsStep == WalkStep("p1")
WalkInsert == AddInsert("p1")

NextWalk == WalkAddStart \/ WalkBfsStep \/ WalkInsert

SpecWalk == InitWalk /\ [][NextWalk]_vars

\* The loop is scheduled until it ends.
SpecWalkFair ==
  InitWalk /\ [][NextWalk]_vars /\ WF_vars(WalkBfsStep) /\ WF_vars(WalkInsert)

-----------------------------------------------------------------------------
(* The dependency relation, read off the edge table *)

\* The tasks reachable from the set S along task_id -> depends_on_id edges of d.
RECURSIVE Grow(_, _)
Grow(d, S) ==
  LET T == S \cup {e.depends_on_id : e \in {x \in d : x.task_id \in S}}
  IN IF T = S THEN S ELSE Grow(d, T)

\* a depends on b, directly or through other tasks.
DependsOn(d, a, b) ==
  b \in Grow(d, {e.depends_on_id : e \in {x \in d : x.task_id = a}})

HasCycle(d) == \E e \in d : DependsOn(d, e.task_id, e.task_id)

HasEdge(d, a, b) == \E e \in d : e.task_id = a /\ e.depends_on_id = b

-----------------------------------------------------------------------------
(* Claims on the dependency graph *)

\* C1: after any sequence of create_task, add_dependency, remove_dependency and
\* delete_task calls executed one at a time, the dependency edges contain no
\* cycle and no self-loop.
C1_GraphAcyclic == ~HasCycle(deps)

\* A chain of two edges was built and the last call added an edge.
C1_Witness ==
  /\ result.op = "add_dependency" /\ result.text = "added"
  /\ \E a, b, c \in DOMAIN tasks :
       a # c /\ HasEdge(deps, a, b) /\ HasEdge(deps, b, c)

\* C2: an add_dependency(task_id, depends_on_id) call whose edge would close a
\* cycle (depends_on_id already depends on task_id, directly or transitively)
\* returns a failure and leaves the edge table as it was.
C2_CycleClosingAddRejected ==
  [][\A a, b \in TaskIds(MaxTasks) :
       (DependsOn(deps, b, a) /\ AddDependency(GraphAgent, a, b))
         => (result'.isError /\ deps' = deps)]_vars

\* A call was answered "circular" while the graph holds a two-edge chain, so
\* one of the rejected edges is the transitive one.
C2_Witness ==
  /\ result.op = "add_dependency" /\ result.isError /\ result.text = "circular"
  /\ \E a, b, c \in DOMAIN tasks :
       /\ a # c /\ HasEdge(deps, a, b) /\ HasEdge(deps, b, c)
       /\ ~HasEdge(deps, a, c)

\* C3: when add_dependency calls of different callers run concurrently on the
\* same store, the cycle check and the insert of each call act as one atomic
\* step, so no interleaving leaves a cycle in the dependency graph.
C3_NoCycleUnderRace == \A t \in DOMAIN tasks : ~DependsOn(deps, t, t)

-----------------------------------------------------------------------------
(* Claims on the status pipelines *)

IsOps(id) == startsWith(tasks[id].project, OpsPrefix)

\* The allowed-next set of status s in the pipeline of the project.
AllowedNext(project, s) ==
  IF s \in DOMAIN getTransitions(project) THEN getTransitions(project)[s] ELSE {}

\* The statuses task id has held, oldest first, as its history rows record them.
Held(id) == [i \in 1..Len(history[id]) |-> history[id][i].to_status]

\* Position of status s in the full-pipeline chain.
StageOf(s) == CHOOSE k \in 1..Len(FORGE_STATUSES) : FORGE_STATUSES[k] = s

\* a occurs in b as a subsequence (same order, gaps allowed).
RECURSIVE IsSubsequence(_, _)
IsSubsequence(a, b) ==
  IF a = <<>> THEN TRUE
  ELSE IF b = <<>> THEN FALSE
  ELSE IF Head(a) = Head(b) THEN IsSubsequence(Tail(a), Tail(b))
  ELSE IsSubsequence(a, Tail(b))

EarlyStages == {"backlog", "specced", "designed", "ready"}
LateStages == {"in_progress", "in_review", "testing", "acceptance", "done"}

\* C4: a status change requested by update_task takes effect only if the new
\* status is in the allowed-next set of the task's current status in the
\* pipeline of its project.
C4_OnlyAllowedTransitions ==
  [][\A id \in DOMAIN tasks \cap DOMAIN tasks' :
       tasks'[id].status # tasks[id].status
         => tasks'[id].status \in AllowedNext(tasks[id].project, tasks[id].status)]_vars

\* C5: every task's status is a member of the status set of the pipeline
\* selected by its project.
C5_StatusInPipeline ==
  \A id \in DOMAIN tasks : tasks[id].status \in statusList(tasks[id].project)

\* C6: once a task's status is done, in either pipeline, no update_task call
\* changes its status again.
C6_DoneIsTerminal ==
  [][\A id \in DOMAIN tasks \cap DOMAIN tasks' :
       tasks[id].status = "done" => tasks'[id].status = "done"]_vars

\* A done task exists and the last call, a status change, was refused.
C6_Witness ==
  /\ result.op = "update_task" /\ result.text = "invalid_transition"
  /\ \A id \in DOMAIN tasks : tasks[id].status = "done"
  /\ \E id \in DOMAIN tasks : IsOps(id)

\* C7: a full-pipeline task never has a status without having held, in order,
\* every earlier status of the chain backlog ... done.
C7_NoStageSkipped ==
  \A id \in DOMAIN tasks :
    (~IsOps(id) /\ tasks[id].status \in Range(FORGE_STATUSES))
      => IsSubsequence(SubSeq(FORGE_STATUSES, 1, StageOf(tasks[id].status)), Held(id))

\* C8: a full-pipeline task that has held in_progress or a later stage never
\* afterwards has status backlog, specced, designed or ready.
C8_NoReturnToEarlyStages ==
  \A id \in DOMAIN tasks :
    ~IsOps(id) =>
      \A i, j \in 1..Len(history[id]) :
        (i < j /\ Held(id)[i] \in LateStages) => Held(id)[j] \notin EarlyStages

\* A full-pipeline task was kicked back to in_progress from a later stage.
C8_Witness ==
  \E id \in DOMAIN tasks :
    /\ ~IsOps(id)
    /\ Len(history[id]) >= 2
    /\ Held(id)[1] \in {"in_review", "testing", "acceptance"}
    /\ tasks[id].status = "in_progress"

\* The status changes the lightweight pipeline is said to accept.
C9_Listed ==
  {<<"todo", "in_progress">>, <<"in_progress", "blocked">>,
   <<"blocked", "done">>, <<"blocked", "in_progress">>}

\* C9: for a task of an ops/ project, update_task accepts exactly the changes
\* todo -> in_progress, in_progress -> blocked, blocked -> done and
\* blocked -> in_progress, and rejects every other change of status (stated
\* here for a task whose current status is one of the four lightweight ones).
C9_OpsTransitionsExactlyListed ==
  [][\A id \in TaskIds(MaxPipelineTasks), status \in VALID_STATUSES :
       (/\ Exists(id) /\ IsOps(id)
        /\ tasks[id].status \in Range(OPS_STATUSES) /\ status # tasks[id].status
        /\ UpdateTask(PipelineAgent, id, status, UNDEFINED, UNDEFINED, UNDEFINED))
         => ((tasks'[id].status = status) <=> (<<tasks[id].status, status>> \in C9_Listed))]_vars

-----------------------------------------------------------------------------
(* Claims on parents and subtasks *)

\* The update_task calls of the family runs that request status done.
DoneRequests ==
  {c \in FamilyChanges : c[1] = "done"}
    \X ({UNDEFINED, NULL} \cup TaskIds(MaxFamilyTasks))
    \X {UNDEFINED, "done"}

\* Task id has a direct child whose status is not done.
HasOpenChild(id) ==
  \E c \in DOMAIN tasks : tasks[c].parent_task_id = id /\ tasks[c].status # "done"

\* C10 as stated: every update_task call that requests status done for a task
\* with a direct child that is not done is rejected (answered with an error),
\* and neither the task nor any of its children changes.
C10_DoneRequestRejected ==
  [][\A id \in DOMAIN tasks :
       (HasOpenChild(id) /\ result'.op = "update_task")
         => \A r \in DoneRequests :
              UpdateTask(FamilyAgent, id, r[1][1], r[1][2], r[2], r[3])
                => (result'.isError /\ tasks' = tasks)]_vars

\* C10 amended: an update_task call that requests status done for a task that
\* is not yet done and has a direct child that is not done never takes effect:
\* it returns an error, or the non-error no-op when its expected_status differs
\* from the current status, and no task, history row or comment changes.
C10_DoneGuard ==
  [][\A id \in DOMAIN tasks :
       (tasks[id].status # "done" /\ HasOpenChild(id) /\ result'.op = "update_task")
         => \A r \in DoneRequests :
              UpdateTask(FamilyAgent, id, r[1][1], r[1][2], r[2], r[3])
                => /\ tasks' = tasks /\ history' = history /\ comments' = comments
                   /\ \/ result'.isError
                      \/ /\ r[3] # UNDEFINED /\ r[3] # tasks[id].status
                         /\ result'.text = "noop_mismatch"]_vars

\* The done-guard answered: a task one step before done has a child that is
\* not done, and the last call was refused for that reason.
C10_Witness ==
  /\ result.op = "update_task" /\ result.isError /\ result.text = "subtasks_not_done"
  /\ \E id \in DOMAIN tasks :
       /\ HasOpenChild(id)
       /\ "done" \in AllowedNext(tasks[id].project, tasks[id].status)

\* The parent_task_id values the parent validation of update_task lets through
\* for task id: none, null, or an existing top-level task other than id while
\* id has no children.
AcceptableParent(id, parent_task_id) ==
  \/ parent_task_id \in {UNDEFINED, NULL}
  \/ /\ parent_task_id # id
     /\ parent_task_id \in DOMAIN tasks
     /\ tasks[parent_task_id].parent_task_id = NULL
     /\ \A c \in DOMAIN tasks : tasks[c].parent_task_id # id

\* C11 as stated: if no direct child of a task is open and done is in the
\* allowed-next set of the task's status, every update_task call that requests
\* done succeeds and the task's status becomes done.
C11_DoneRequestSucceeds ==
  [][\A id \in DOMAIN tasks :
       (/\ ~HasOpenChild(id)
        /\ "done" \in AllowedNext(tasks[id].project, tasks[id].status)
        /\ result'.op = "update_task")
         => \A r \in DoneRequests :
              UpdateTask(FamilyAgent, id, r[1][1], r[1][2], r[2], r[3])
                => (~result'.isError /\ tasks'[id].status = "done")]_vars

\* C11 amended: under the same two conditions, an update_task call that
\* requests done, carries no expected_status different from the current status
\* and no parent_task_id the parent validation refuses, succeeds: the answer is
\* no error and the task's status becomes done.
C11_DoneReachable ==
  [][\A id \in DOMAIN tasks :
       (/\ result'.op = "update_task"
        /\ tasks[id].status # "done"
        /\ "done" \in AllowedNext(tasks[id].project, tasks[id].status)
        /\ ~HasOpenChild(id))
         => \A r \in DoneRequests :
              (/\ r[3] \in {UNDEFINED, tasks[id].status}
               /\ AcceptableParent(id, r[2])
               /\ UpdateTask(FamilyAgent, id, r[1][1], r[1][2], r[2], r[3]))
                => (~result'.isError /\ result'.text = "updated"
                    /\ tasks'[id].status = "done")]_vars

\* A parent whose only child is done went from the stage before done to done.
C11_Witness ==
  /\ result.op = "update_task" /\ result.text = "updated"
  /\ \E id \in DOMAIN tasks :
       /\ tasks[id].status = "done"
       /\ Len(history[id]) = 2 /\ history[id][2].to_status = "done"
       /\ \E c \in DOMAIN tasks : tasks[c].parent_task_id = id

\* C12: an update_task call whose only requested change is a status equal to
\* the task's current status (with or without an expected_status) returns a
\* non-error result, writes no history entry and no audit comment, and leaves
\* the task unchanged.
C12_SameStatusIsNoop ==
  [][\A id \in DOMAIN tasks :
       result'.op = "update_task"
         => \A expected_status \in {UNDEFINED, "done"} :
              UpdateTask(FamilyAgent, id, tasks[id].status, UNDEFINED, UNDEFINED,
                         expected_status)
                => /\ ~result'.isError
                   /\ tasks' = tasks /\ history' = history /\ comments' = comments]_vars

\* The call was answered without an error for a done task that has a child
\* which is not done: the one place where a kept status would meet a guard.
C12_Witness ==
  /\ result.op = "update_task" /\ ~result.isError /\ result.text = "no_fields"
  /\ \E id \in DOMAIN tasks : tasks[id].status = "done" /\ HasOpenChild(id)

\* The update_task calls of the family runs that carry expected_status done.
ExpectDoneRequests ==
  FamilyChanges \X ({UNDEFINED, NULL} \cup TaskIds(MaxFamilyTasks)) \X {"done"}

\* C13: an update_task call carrying an expected_status that differs from the
\* task's current status changes nothing in the store (tasks, history,
\* comments), returns a non-error result, and the result names the task's
\* actual current status.
C13_StaleExpectedStatusIsNoop ==
  [][\A id \in DOMAIN tasks :
       (result'.op = "update_task" /\ tasks[id].status # "done")
         => \A r \in ExpectDoneRequests :
              UpdateTask(FamilyAgent, id, r[1][1], r[1][2], r[2], r[3])
                => /\ ~result'.isError
                   /\ result'.shown = tasks[id].status
                   /\ tasks' = tasks /\ history' = history /\ comments' = comments]_vars

\* The mismatch was reported for a task that is not done and whose status the
\* answer names.
C13_Witness ==
  /\ result.op = "update_task" /\ ~result.isError /\ result.text = "noop_mismatch"
  /\ \E id \in DOMAIN tasks :
       tasks[id].status # "done" /\ result.shown = tasks[id].status

-----------------------------------------------------------------------------
(* Claims on update_task under concurrency *)

\* C14: when callers race on one task with update_task calls that carry the
\* status the task had before the race as expected_status, the calls are
\* serialized: a call performs its status change only if the task still has
\* the expected status when the change is written; the other call gets the
\* no-op and writes nothing.
C14_RacingUpdatesSerialized ==
  [][\A p \in Procs :
       (/\ procs[p].pc = "update_tx" /\ procs'[p].pc = "idle"
        /\ procs[p].expected_status # UNDEFINED)
         => tasks[procs[p].task_id].status = procs[p].expected_status]_vars

-----------------------------------------------------------------------------
(* Claims on nesting *)

\* C15: no task is its own parent, and the parent of every subtask is an
\* existing task that has no parent itself (nesting depth at most one).
C15_NestingAtMostOne ==
  \A id \in DOMAIN tasks :
    /\ tasks[id].parent_task_id # id
    /\ tasks[id].parent_task_id # NULL
         => /\ tasks[id].parent_task_id \in DOMAIN tasks
            /\ tasks[tasks[id].parent_task_id].parent_task_id = NULL

\* An update_task call was refused because the task it would have made a
\* subtask has a child of its own, while another top-level task exists.
C15_Witness ==
  /\ result.op = "update_task" /\ result.isError /\ result.text = "parent_into_subtask"
  /\ \E a, b, c \in DOMAIN tasks :
       /\ tasks[c].parent_task_id = a
       /\ b # a /\ tasks[b].parent_task_id = NULL

\* C16: create_task with a parent_task_id stores the new task with the
\* parent's project, whatever project value the caller supplied.
C16_SubtaskTakesParentProject ==
  [][\A parent \in DOMAIN tasks :
       result'.op = "create_task"
         => \A project \in {ProjForge, ProjOps, NoProject} :
              (/\ CreateTask(NestAgent, project, UNDEFINED, UNDEFINED, parent)
               /\ ~result'.isError)
                => /\ uuid8(nextId) \in DOMAIN tasks'
                   /\ tasks'[uuid8(nextId)].parent_task_id = parent
                   /\ tasks'[uuid8(nextId)].project = tasks[parent].project]_vars

\* The last call created a subtask in a lightweight project under a parent of
\* that project.
C16_Witness ==
  /\ result.op = "create_task" /\ result.text = "created"
  /\ result.shown \in DOMAIN tasks
  /\ tasks[result.shown].parent_task_id \in DOMAIN tasks
  /\ tasks[result.shown].project = ProjOps
  /\ tasks[tasks[result.shown].parent_task_id].project = ProjOps

-----------------------------------------------------------------------------
(* Claims on the status history *)

\* Tasks and histories exist together, the first history entry of a task is
\* its only entry with from_status null, and while it is the only entry its
\* to_status is the task's status.
InitialEntryInPlace ==
  /\ DOMAIN history = DOMAIN tasks
  /\ \A id \in DOMAIN tasks :
       /\ Len(history[id]) >= 1
       /\ \A i \in 1..Len(history[id]) : (history[id][i].from_status = NULL) <=> (i = 1)
       /\ Len(history[id]) = 1 => history[id][1].to_status = tasks[id].status

\* C17: in every reachable state each existing task has exactly one history
\* entry whose from_status is null, written together with the task, with the
\* status the task was created with as to_status; that entry never changes
\* while the task exists, and no history exists without its task.
C17_CreatedWithInitialEntry ==
  /\ []InitialEntryInPlace
  /\ [][\A id \in DOMAIN tasks \cap DOMAIN tasks' :
          history'[id][1] = history[id][1]]_vars

\* One task has moved on from its first status and another was just deleted.
C17_Witness ==
  /\ result.op = "delete_task" /\ result.text = "deleted"
  /\ \E id \in DOMAIN tasks :
       Len(history[id]) = 2 /\ history[id][1].to_status # tasks[id].status

\* C18: each status change made by update_task writes, in the same step, the
\* new status, exactly one history entry (from = old status, to = new status,
\* changed_by = caller) and exactly one audit comment naming old and new; an
\* update_task step that changes no status writes neither.
C18_StatusChangeIsAudited ==
  [][\A id \in DOMAIN tasks \cap DOMAIN tasks' :
       IF tasks'[id].status # tasks[id].status
       THEN /\ history'[id] =
                 Append(history[id], [from_status |-> tasks[id].status,
                                      to_status |-> tasks'[id].status,
                                      changed_by |-> PipelineAgent])
            /\ comments'[id] =
                 Append(comments[id],
                        [author |-> PipelineAgent,
                         content |-> <<"Status", tasks[id].status, tasks'[id].status>>])
       ELSE history'[id] = history[id] /\ comments'[id] = comments[id]]_vars

\* The last call changed a status: the task has its second history entry and
\* its first audit comment.
C18_Witness ==
  /\ result.op = "update_task" /\ result.text = "updated"
  /\ \E id \in DOMAIN tasks :
       /\ Len(history[id]) = 2 /\ Len(comments[id]) = 1
       /\ history[id][2].to_status = tasks[id].status

-----------------------------------------------------------------------------
(* Claims on delete_task *)

\* The task and its direct children.
Family(id) == {id} \cup {c \in DOMAIN tasks : tasks[c].parent_task_id = id}

\* C19: a confirmed delete_task of an existing task removes exactly the task,
\* its direct children, and every comment, history entry and dependency edge
\* (as either endpoint) of the task and of each child; every other task,
\* comment, history entry and dependency edge is unchanged.
C19_DeleteCascadesExactly ==
  [][\A id \in DOMAIN tasks :
       (result'.op = "delete_task" /\ DeleteTask(CascadeAgent, id, TRUE))
         => /\ tasks' = [x \in DOMAIN tasks \ Family(id) |-> tasks[x]]
            /\ comments' = [x \in DOMAIN comments \ Family(id) |-> comments[x]]
            /\ history' = [x \in DOMAIN history \ Family(id) |-> history[x]]
            /\ deps' = {e \in deps : e.task_id \notin Family(id)
                                     /\ e.depends_on_id \notin Family(id)}]_vars

\* C20: delete_task called without confirm = true changes nothing in the
\* store and returns a non-error result, whether or not the task exists.
C20_UnconfirmedDeleteIsNoop ==
  [][result'.op = "delete_task"
       => \A id \in TaskIds(MaxCascadeIds) :
            DeleteTask(CascadeAgent, id, FALSE)
              => /\ ~result'.isError
                 /\ UNCHANGED <<tasks, deps, history, comments, initiatives, links>>]_vars

\* The unconfirmed call was answered while the store holds a task with a
\* subtask, a comment and a dependency edge.
C20_Witness ==
  /\ result.op = "delete_task" /\ ~result.isError /\ result.text = "not_confirmed"
  /\ deps # {}
  /\ \E id, c \in DOMAIN tasks :
       tasks[c].parent_task_id = id /\ comments[id] # <<>>

-----------------------------------------------------------------------------
(* Claims on single edges and links *)

\* The edges of d other than the ordered pair (a, b).
OtherEdges(d, a, b) == {e \in d : ~(e.task_id = a /\ e.depends_on_id = b)}

\* C21: remove_dependency(task_id, depends_on_id) deletes the edge with
\* exactly that ordered pair and no other edge; when there is no such edge it
\* returns a failure and leaves the graph unchanged.
C21_RemoveExactPair ==
  [][result'.op = "remove_dependency"
       => \A agent \in LinkAgents, a, b \in TaskIds(MaxLinkIds) :
            RemoveDependency(agent, a, b)
              => /\ UNCHANGED <<tasks, history, comments, initiatives, links>>
                 /\ IF HasEdge(deps, a, b)
                    THEN ~result'.isError /\ deps' = OtherEdges(deps, a, b)
                    ELSE result'.isError /\ deps' = deps]_vars

\* An edge was removed and another edge is still in the graph.
C21_Witness ==
  /\ result.op = "remove_dependency" /\ ~result.isError
  /\ deps # {}

\* C22: add_dependency repeated for an edge that exists returns success and
\* leaves the store unchanged, and no ordered pair ever has two edges.
C22_AddDependencyIdempotent ==
  /\ [](\A e1, e2 \in deps :
          (e1.task_id = e2.task_id /\ e1.depends_on_id = e2.depends_on_id)
            => e1 = e2)
  /\ [][result'.op = "add_dependency"
          => \A agent \in LinkAgents, a, b \in TaskIds(MaxLinkIds) :
               (HasEdge(deps, a, b) /\ AddDependency(agent, a, b))
                 => /\ ~result'.isError
                    /\ UNCHANGED <<tasks, deps, history, comments, initiatives, links>>]_vars

\* An add_dependency call succeeded on a graph that holds an edge created by
\* each of the two agents.
C22_Witness ==
  /\ result.op = "add_dependency" /\ ~result.isError
  /\ \E e1, e2 \in deps : e1.created_by # e2.created_by

\* The initiative and the task are linked in l.
IsLinked(l, i, t) == \E x \in l : x.initiative_id = i /\ x.task_id = t

\* C23: link_task_to_initiative on a pair that is already linked returns
\* success and leaves the store unchanged; a pair never has two links, and
\* the link keeps the role it was made with.
C23_LinkIdempotent ==
  /\ [](\A x, y \in links :
          (x.initiative_id = y.initiative_id /\ x.task_id = y.task_id) => x = y)
  /\ [][result'.op = "link_task_to_initiative"
          => \A agent \in LinkAgents, i, t \in TaskIds(MaxLinkIds), role \in LinkRoles :
               (IsLinked(links, i, t) /\ LinkTaskToInitiative(agent, i, t, role))
                 => /\ ~result'.isError
                    /\ UNCHANGED <<tasks, deps, history, comments, initiatives, links>>]_vars

\* Two tasks are linked to one initiative with different roles by different
\* agents, after a link call.
C23_Witness ==
  /\ result.op = "link_task_to_initiative" /\ ~result.isError
  /\ \E x, y \in links :
       /\ x.initiative_id = y.initiative_id /\ x.task_id # y.task_id
       /\ x.role # y.role /\ x.linked_by # y.linked_by

-----------------------------------------------------------------------------
(* Claims on identifiers that do not exist *)

StoreUnchanged == UNCHANGED <<tasks, deps, history, comments, initiatives, links>>

MissingTasks == {id \in LookupIds : ~Exists(id)}
MissingInitiatives == {id \in LookupIds : id \notin DOMAIN initiatives}

\* The criterion id c names no item of task t's checklist.
MissingCriterion(t, c) ==
  \A n \in 1..Len(tasks[t].criteria.items) : tasks[t].criteria.items[n].id # c

\* The ordered pairs add_dependency and remove_dependency are called with.
LookupPairs ==
  {<<uuid8(i), uuid8(j)>> : i, j \in 1..(MaxLookupIds + 1)} \ {<<id, id>> : id \in LookupIds}

\* C24: every taskboard operation that is given a task, initiative,
\* dependency or criterion identifier that does not exist answers its caller
\* with a result and leaves the store unchanged.
C24_MissingIdChangesNothing ==
  [][LET op == result'.op
         A == LookupAgent
     IN
     CASE op = "create_task" ->
          \A p \in MissingTasks :
            CreateTask(A, ProjOps, UNDEFINED, UNDEFINED, p) => StoreUnchanged
     [] op = "get_task" ->
          \A t \in LookupTargets \cap MissingTasks : getTask(A, t) => StoreUnchanged
     [] op = "update_task" ->
          \A t \in LookupTargets, status \in {UNDEFINED, "in_progress"},
             p \in {UNDEFINED} \cup LookupIds :
            ((t \in MissingTasks \/ p \in MissingTasks)
               /\ UpdateTask(A, t, status, UNDEFINED, p, UNDEFINED)) => StoreUnchanged
     [] op = "delete_task" ->
          \A t \in MissingTasks : DeleteTask(A, t, TRUE) => StoreUnchanged
     [] op = "add_comment" ->
          \A t \in LookupTargets \cap MissingTasks :
            AddComment(A, t, <<"note">>) => StoreUnchanged
     [] op = "submit_review" ->
          \A t \in LookupTargets \cap MissingTasks :
            submitReview(A, t, "approve", <<"fine">>) => StoreUnchanged
     [] op = "set_criteria" ->
          \A t \in LookupTargets \cap MissingTasks, criteria \in LookupCriteria :
            setCriteria(A, t, criteria) => StoreUnchanged
     [] op = "check_criterion" ->
          \A t \in LookupTargets, c \in LookupCriterionIds, checked \in BOOLEAN :
            ((t \in MissingTasks \/ MissingCriterion(t, c))
               /\ checkCriterion(A, t, c, checked)) => StoreUnchanged
     [] op = "add_dependency" ->
          \A pair \in LookupPairs :
            ((pair[1] \in MissingTasks \/ pair[2] \in MissingTasks)
               /\ AddDependency(A, pair[1], pair[2])) => StoreUnchanged
     [] op = "remove_dependency" ->
          \A pair \in LookupPairs :
            (~HasEdge(deps, pair[1], pair[2])
               /\ RemoveDependency(A, pair[1], pair[2])) => StoreUnchanged
     [] op = "link_task_to_initiative" ->
          \A i \in LookupIds, t \in LookupTargets :
            ((i \in MissingInitiatives \/ t \in MissingTasks)
               /\ LinkTaskToInitiative(A, i, t, "")) => StoreUnchanged
     [] op = "get_initiative" ->
          \A i \in LookupTargets \cap MissingInitiatives :
            getInitiative(A, i) => StoreUnchanged
     [] op = "update_initiative" ->
          \A i \in LookupTargets \cap MissingInitiatives, status \in {UNDEFINED, "paused"} :
            updateInitiative(A, i, status) => StoreUnchanged
     [] op = "add_initiative_update" ->
          \A i \in LookupTargets \cap MissingInitiatives :
            addInitiativeUpdate(A, i, <<"progress">>) => StoreUnchanged
     [] OTHER -> TRUE]_vars

\* check_criterion named a criterion the task's checklist does not have, on a
\* board that holds a task with a checklist and an initiative.
C24_Witness ==
  /\ result.op = "check_criterion" /\ result.isError
  /\ result.text = "criterion_not_found"
  /\ initiatives # EmptyTable
  /\ \E t \in DOMAIN tasks : Len(tasks[t].criteria.items) = 1

-----------------------------------------------------------------------------
(* Claims on rejected updates *)

\* update_task(id, status, parent_task_id) is a call the handler has to reject:
\* the status is not in the allowed-next set of the current one, or it is done
\* while a direct child is not done, or the parent is not acceptable.
MustReject(id, status, parent_task_id) ==
  \/ /\ status \notin {UNDEFINED, tasks[id].status}
     /\ status \notin AllowedNext(tasks[id].project, tasks[id].status)
  \/ status = "done" /\ tasks[id].status # "done" /\ HasOpenChild(id)
  \/ ~AcceptableParent(id, parent_task_id)

\* C25: an update_task call that is rejected for its transition, by the
\* done-guard or for its parent_task_id applies none of the changes it
\* carries: every update_task step answered with an error leaves task rows,
\* history and comments as before the call, and no call that has to be
\* rejected is answered in another way.
C25_RejectedUpdateAppliesNothing ==
  [][result'.op = "update_task"
       => IF result'.isError THEN StoreUnchanged
          ELSE \A id \in DOMAIN tasks, status \in RejectStatuses,
                  parent \in {UNDEFINED} \cup TaskIds(MaxRejectTasks) :
                 MustReject(id, status, parent)
                   => \A assigned_to \in RejectAssignees :
                        ~UpdateTask(RejectAgent, id, status, assigned_to, parent, UNDEFINED)]_vars

\* A call was refused for its transition on a board where an earlier call
\* assigned a task and another moved a task forward.
C25_Witness ==
  /\ result.op = "update_task" /\ result.isError /\ result.text = "invalid_transition"
  /\ \E a, b \in DOMAIN tasks :
       tasks[a].assigned_to = "bob" /\ Len(history[b]) > 1

-----------------------------------------------------------------------------
(* Claims on checklists *)

\* The checklist of task t as check_criterion reads it.
ItemsOf(t) == tasks[t].criteria.items

\* C26: after any sequence of set_criteria and check_criterion calls, an item
\* is checked exactly when its checked_by is set, and checked_by names the
\* caller of the latest check_criterion(checked = true) on the item: a
\* successful check by an agent puts that agent's name on the item, and a
\* name appears on an item in no other way.
C26_CheckedByLastChecker ==
  /\ [](\A t \in DOMAIN tasks :
          \A n \in 1..Len(ItemsOf(t)) :
            ItemsOf(t)[n].checked <=> ItemsOf(t)[n].checked_by # NULL)
  /\ [][\A t \in DOMAIN tasks \cap DOMAIN tasks' :
          LET before == ItemsOf(t)
              after == tasks'[t].criteria.items
          IN
          /\ \A agent \in {"alice", "bob"}, n \in 1..Len(before) :
               (/\ result'.op = "check_criterion"
                /\ ~result'.isError
                /\ checkCriterion(agent, t, before[n].id, TRUE))
                 => after[n].checked_by = agent
          /\ \A n \in 1..Len(after) :
               (/\ after[n].checked_by # NULL
                /\ n <= Len(before) => before[n].checked_by # after[n].checked_by)
                 => /\ n <= Len(before)
                    /\ checkCriterion(after[n].checked_by, t, before[n].id, TRUE)]_vars

\* An item checked by one agent while another item of the same list is
\* checked by the other and a third is not checked.
C26_Witness ==
  /\ result.op = "check_criterion" /\ ~result.isError
  /\ \E t \in DOMAIN tasks :
       /\ Len(ItemsOf(t)) = 3
       /\ {ItemsOf(t)[n].checked_by : n \in 1..3} = {"alice", "bob", NULL}

-----------------------------------------------------------------------------
\* The plans of an agent that have status active.
ActivePlans(agent) ==
  {id \in DOMAIN plans : plans[id].agent_name = agent /\ plans[id].status = "active"}

\* C27: in every reachable state each agent has at most one plan with status
\* active, whatever create_plan, update_step, complete_plan and abandon_plan
\* calls were executed; and a create_plan call leaves every plan of the caller
\* that was active before it superseded.
C27_OneActivePlan ==
  /\ [](\A agent \in PlanAgents : Cardinality(ActivePlans(agent)) <= 1)
  /\ [][result'.op = "create_plan" =>
          \A id \in ActivePlans(plans'[result'.shown].agent_name) :
            plans'[id].status = "superseded"]_vars

\* An agent created a plan while it had an active one: it now owns a
\* superseded plan and the active plan the call returned.
C27_Witness ==
  /\ result.op = "create_plan"
  /\ plans[result.shown].status = "active"
  /\ \E id \in DOMAIN plans :
       /\ plans[id].agent_name = plans[result.shown].agent_name
       /\ plans[id].status = "superseded"

\* Every step of the list is done or skipped.
StepsFinished(steps) == \A i \in 1..Len(steps) : steps[i].status \in {"done", "skipped"}

\* C28: immediately after an update_step call, a plan that was active when the
\* call was made is completed if and only if every one of its steps is done or
\* skipped, and is still active otherwise.
C28_AutoCompletion ==
  [][result'.op = "update_step" =>
       \A id \in DOMAIN plans :
         plans[id].status = "active" =>
           /\ plans'[id].status \in {"active", "completed"}
           /\ plans'[id].status = "completed" <=> StepsFinished(plans'[id].steps)]_vars

\* update_step finished a plan of two steps, one of them done and one skipped,
\* and the plan is completed.
C28_Witness ==
  /\ result.op = "update_step"
  /\ result.text = "plan_completed"
  /\ plans[result.shown].status = "completed"
  /\ {plans[result.shown].steps[i].status : i \in 1..Len(plans[result.shown].steps)}
       = {"done", "skipped"}

\* The step is a planner call made by the agent.
PlannerCallBy(agent) ==
  \/ \E steps \in {<<"x">>, <<"x", "y">>} : createPlan(agent, steps)
  \/ \E step_id \in 1..2, status \in {"done", "skipped"}, plan_id \in PlanRefs :
       updateStep(agent, step_id, status, plan_id)
  \/ \E plan_id \in PlanRefs : completePlan(agent, plan_id)
  \/ \E plan_id \in PlanRefs : abandonPlan(agent, plan_id)

\* C29: plans are scoped by agent: a planner call made by one agent, with or
\* without an explicit plan_id, leaves every plan owned by a different agent
\* as it was.
C29_PlansScopedByAgent ==
  [][\A agent \in PlanAgents :
       PlannerCallBy(agent) =>
         \A id \in DOMAIN plans :
           plans[id].agent_name # agent => plans'[id] = plans[id]]_vars

\* The step is a recall, list_memories, update_memory or forget call made by
\* the agent.
MemoryCallBy(agent) ==
  \/ \E limit \in {1, 10} : recall(agent, limit)
  \/ \E limit \in {1, 20} : listMemories(agent, limit)
  \/ \E memory_id \in TaskIds(MaxMemories + 1), content \in {UNDEFINED, "b"} :
       updateMemory(agent, memory_id, content)
  \/ \E memory_id \in TaskIds(MaxMemories + 1) : forget(agent, memory_id)

\* The memories stored by agents other than the given one.
MemoriesOfOthers(agent) ==
  {id \in DOMAIN memories : memories[id].agent_name # agent}

\* A recall or list_memories call by an agent returns none of the memories
\* stored by other agents and leaves them as they were.
ReadsAreIsolated ==
  [][\A agent \in MemoryAgents :
       (\E limit \in {1, 10} : recall(agent, limit))
       \/ (\E limit \in {1, 20} : listMemories(agent, limit)) =>
         /\ result'.shown \cap MemoriesOfOthers(agent) = {}
         /\ \A id \in MemoriesOfOthers(agent) :
              id \in DOMAIN memories' /\ memories'[id] = memories[id]]_vars

\* C30: each agent's memories are isolated: a recall, list_memories,
\* update_memory or forget call made by one agent returns no memory stored by
\* a different agent, and leaves every such memory in the table, unmodified.
C30_MemoriesIsolated ==
  [][\A agent \in MemoryAgents :
       MemoryCallBy(agent) =>
         /\ result'.shown \cap MemoriesOfOthers(agent) = {}
         /\ \A id \in MemoriesOfOthers(agent) :
              id \in DOMAIN memories' /\ memories'[id] = memories[id]]_vars

-----------------------------------------------------------------------------
(* Claims on the cycle check, the order of update_task's tests, races on    *)
(* checklists and history, references between rows, and plan status        *)

\* C31: for two existing distinct tasks a and b, add_dependency(a, b) is
\* rejected as circular if and only if b already depends on a, directly or
\* transitively; in every other case the call succeeds and the edge a -> b is
\* in the table.
C31_CircularIffDependsBack ==
  [][result'.op = "add_dependency" =>
       \A a, b \in DOMAIN tasks :
         (a # b /\ AddDependency(GraphAgent, a, b)) =>
           IF DependsOn(deps, b, a)
           THEN result'.isError /\ result'.text = "circular" /\ deps' = deps
           ELSE ~result'.isError /\ HasEdge(deps', a, b)]_vars

\* An add_dependency call succeeded for an edge between two tasks that were
\* already connected through a third: a depends on b, b on c, and the edge
\* from a to c was accepted.
C31_Witness ==
  /\ result.op = "add_dependency" /\ result.text = "added"
  /\ \E a, b, c \in DOMAIN tasks :
       /\ a # b /\ b # c /\ a # c
       /\ HasEdge(deps, a, b) /\ HasEdge(deps, b, c) /\ HasEdge(deps, a, c)

\* C32: update_task tests expected_status before every other validation: a
\* call on an existing task whose expected_status differs from the task's
\* current status is answered with the non-error no-op naming the current
\* status and changes nothing, also when its status request is not an allowed
\* transition, the done-guard would refuse it, or its parent_task_id is not
\* acceptable.
C32_ExpectedStatusFirst ==
  [][result'.op = "update_task" =>
       \A id \in DOMAIN tasks, status \in LockStatuses,
          parent \in {UNDEFINED} \cup TaskIds(MaxLockTasks),
          expected \in {"todo", "in_progress"} :
         (/\ expected # tasks[id].status
          /\ UpdateTask(LockAgent, id, status, UNDEFINED, parent, expected))
           => /\ ~result'.isError
              /\ result'.text = "noop_mismatch"
              /\ result'.shown = tasks[id].status
              /\ StoreUnchanged]_vars

\* The no-op was answered for a task that has an open child and is in a
\* status from which neither in_progress nor done is an allowed transition:
\* for this task every stale call that requests a status is one the later
\* validations would refuse.
C32_Witness ==
  /\ result.op = "update_task" /\ ~result.isError /\ result.text = "noop_mismatch"
  /\ \E id \in DOMAIN tasks :
       /\ result.shown = tasks[id].status
       /\ \A t \in DOMAIN tasks : t # id => tasks[t].status # tasks[id].status
       /\ HasOpenChild(id)
       /\ AllowedNext(tasks[id].project, tasks[id].status) \cap {"in_progress", "done"} = {}

\* C33: when two callers run check_criterion concurrently on different items
\* of one task's checklist, neither call overwrites the other's change: the
\* write of a call leaves every item other than the one the call names as it
\* is stored at that moment.
C33_ConcurrentChecksBothKept ==
  [][\A p \in Procs :
       CheckUpdate(p) =>
         LET t == procs[p].task_id IN
         \A n \in 1..Len(ItemsOf(t)) :
           (n <= Len(tasks'[t].criteria.items) /\ ItemsOf(t)[n].id # procs[p].criterion_id)
             => tasks'[t].criteria.items[n] = ItemsOf(t)[n]]_vars

\* C34: for every task, the history entries in the order they were added form
\* a chain: the first has from_status null, each later entry's from_status is
\* the to_status of the entry before it, and the last entry's to_status is the
\* task's current status, also when update_task calls of different callers
\* interleave.
C34_HistoryIsChain ==
  \A t \in DOMAIN tasks :
    /\ history[t] # <<>>
    /\ history[t][1].from_status = NULL
    /\ \A i \in 2..Len(history[t]) : history[t][i].from_status = history[t][i - 1].to_status
    /\ history[t][Len(history[t])].to_status = tasks[t].status

\* C35: in every reachable state every direct child of a task whose status is
\* done also has status done, including after create_task with a
\* parent_task_id and after update_task sets or changes a parent_task_id.
C35_DoneParentHasDoneChildren ==
  \A c \in DOMAIN tasks :
    (tasks[c].parent_task_id \in DOMAIN tasks /\ tasks[tasks[c].parent_task_id].status = "done")
      => tasks[c].status = "done"

\* C36: in every reachable state a subtask has the same project, and so the
\* same pipeline, as its parent, including after update_task sets or changes
\* the subtask's parent_task_id.
C36_SubtaskSharesParentProject ==
  \A c \in DOMAIN tasks :
    tasks[c].parent_task_id \in DOMAIN tasks
      => tasks[c].project = tasks[tasks[c].parent_task_id].project

\* C37: in every reachable state both endpoints of every dependency edge and
\* the parent of every subtask are existing tasks, whatever sequence of
\* create_task, add_dependency, update_task re-parenting and confirmed
\* delete_task calls was executed one at a time.
C37_ReferencesExist ==
  /\ \A e \in deps : e.task_id \in DOMAIN tasks /\ e.depends_on_id \in DOMAIN tasks
  /\ \A t \in DOMAIN tasks :
       tasks[t].parent_task_id # NULL => tasks[t].parent_task_id \in DOMAIN tasks

\* A confirmed delete removed a task, and the tasks that remain still hold a
\* dependency edge and a subtask.
C37_Witness ==
  /\ result.op = "delete_task" /\ result.text = "deleted"
  /\ deps # {}
  /\ \E t \in DOMAIN tasks : tasks[t].parent_task_id # NULL

\* C38: a confirmed delete_task of an existing task succeeds, and afterwards no
\* initiative-task link refers to a task that does not exist, also when the
\* task or one of its children is linked to an initiative.
C38_DeleteLeavesNoDanglingLink ==
  [][result'.op = "delete_task" =>
       \A id \in DOMAIN tasks :
         DeleteTask(CascadeAgent, id, TRUE)
           => /\ ~result'.isError
              /\ id \notin DOMAIN tasks'
              /\ \A l \in links' : l.task_id \in DOMAIN tasks']_vars

\* C39: once a plan's status is completed, abandoned or superseded, no
\* create_plan, update_step, complete_plan or abandon_plan call, with or
\* without an explicit plan_id, changes its status again.
C39_TerminalPlanStatusIsFinal ==
  [][\A id \in DOMAIN plans :
       plans[id].status \in {"completed", "abandoned", "superseded"}
         => plans'[id].status = plans[id].status]_vars

\* The tasks the running check of the process has not expanded.
Unexpanded(local) == DOMAIN tasks \ Range(local.expanded)

\* C40: the cycle check of add_dependency terminates on every finite
\* dependency graph and expands each task at most once, also when the stored
\* graph contains a cycle: the log of expanded tasks never names a task twice,
\* and every loop iteration that does not end the check either expands a task
\* not expanded before or shortens the queue without expanding, and a check
\* that was started comes to its end when the process keeps running.
C40_CycleCheckTerminates ==
  /\ [](procs["p1"].pc = "bfs" =>
          \A i, j \in 1..Len(procs["p1"].expanded) :
            procs["p1"].expanded[i] = procs["p1"].expanded[j] => i = j)
  /\ [][(procs["p1"].pc = "bfs" /\ procs'["p1"].pc = "bfs") =>
          \/ /\ Unexpanded(procs'["p1"]) # Unexpanded(procs["p1"])
             /\ Unexpanded(procs'["p1"]) \subseteq Unexpanded(procs["p1"])
          \/ /\ procs'["p1"].expanded = procs["p1"].expanded
             /\ Len(procs'["p1"].queue) < Len(procs["p1"].queue)]_vars
  /\ (procs["p1"].pc = "bfs") ~> (procs["p1"].pc = "idle")

\* The loop of a check has ended with an empty queue after it expanded two
\* tasks that depend on each other in the stored graph.
C40_Witness ==
  /\ procs["p1"].pc = "bfs" /\ procs["p1"].queue = <<>>
  /\ \E a, b \in Range(procs["p1"].expanded) :
       a # b /\ DependsOn(deps, a, b) /\ DependsOn(deps, b, a)

====
